---------------------------- MODULE Spec2Model ----------------------------
(***************************************************************************)
(* A model of azurepim's authentication core:                              *)
(*   - the loopback callback listener (src/auth/callback_server.rs),       *)
(*   - callback URL parsing (src/auth/oauth.rs),                           *)
(*   - the orchestrator loop, the listener threads it spawns and the       *)
(*     session-restore task (src/main.rs),                                 *)
(*   - the token refresh scheduler (src/auth/token_manager.rs).            *)
(*                                                                         *)
(* Strings are sequences of symbols.  A symbol stands for a run of         *)
(* characters that the code never looks inside ("code", "error", "/callback"*)
(* ...), while the separators the code searches for ("?", "&", "=") are     *)
(* symbols of their own, so that substring search, prefix tests and query  *)
(* splitting are computed on the model's strings as the code computes them *)
(* on its own.                                                             *)
(***************************************************************************)
EXTENDS Integers, Sequences, FiniteSets, TLC

(***************************************************************************)
(* Bounds of the model.                                                    *)
(***************************************************************************)
\* Number of SignIn actions the orchestrator handles (one listener each).
MaxAttempts == 2
\* Number of query parameters of a request path the listener is offered.
MaxParams == 2
\* Number of start_auto_refresh calls made on the TokenManager.
MaxStarts == 2
\* Number of commands waiting in a scheduler loop's channel, and of
\* refresh_now calls.
MaxCommands == 2
\* Number of full periods of its interval a scheduler loop is followed for.
MaxIntervals == 1
\* Largest of the small second counts start_auto_refresh is called with.
MaxSeconds == 3
\* Largest number of whole minutes of a duration that is formatted.
MaxMinutes == 121
\* Number of query parameters of a URL that parse_callback_url is called with.
MaxCallbackParams == 3
\* Number of different strings the store_* functions are called with.
MaxValues == 2
\* Number of different role keys the favorites of PimSettings are built from.
MaxKeys == 5
\* Number of clock readings (Utc::now) in one hour.
TicksPerHour == 3
\* Largest clock reading the role cache is followed to.
MaxTicks == 8

(***************************************************************************)
(* Program constants.                                                      *)
(***************************************************************************)
\* callback_server.rs:13
CALLBACK_PORT == 28491
\* main.rs:217, the capacity of the callback result channel
CallbackChannelCapacity == 1
\* pim/cache.rs:8
CACHE_TTL_HOURS == 1

None == "None"

(***************************************************************************)
(* String helpers (Rust's str::contains, str::starts_with, split).         *)
(***************************************************************************)
\* str::contains(pat): pat occurs as a contiguous run of s.
Contains(s, pat) ==
    \E i \in 1..(Len(s) - Len(pat) + 1) : SubSeq(s, i, i + Len(pat) - 1) = pat

\* str::starts_with(pat)
StartsWith(s, pat) ==
    Len(s) >= Len(pat) /\ SubSeq(s, 1, Len(pat)) = pat

\* Position of the first occurrence of symbol c in s, 0 if there is none.
IndexOf(s, c) ==
    IF \E i \in 1..Len(s) : s[i] = c
    THEN CHOOSE i \in 1..Len(s) : s[i] = c /\ \A j \in 1..(i - 1) : s[j] # c
    ELSE 0

\* s.split(c): the segments of s between occurrences of c.
RECURSIVE Split(_, _)
Split(s, c) ==
    LET i == IndexOf(s, c)
    IN  IF i = 0 THEN <<s>>
        ELSE <<SubSeq(s, 1, i - 1)>> \o Split(SubSeq(s, i + 1, Len(s)), c)

(***************************************************************************)
(* The requests a client can send to the listener.                         *)
(***************************************************************************)
\* The CSRF state of the n-th sign-in attempt (generate_auth_url draws 16
\* random bytes: every attempt gets a state of its own).
StateNames == <<"s1", "s2", "s3", "s4", "s5", "s6">>
StateOf(n) == StateNames[n]

\* The PKCE verifier of the n-th sign-in attempt (PkceChallenge::new draws
\* 32 random bytes).
VerifierNames == <<"v1", "v2", "v3", "v4", "v5", "v6">>
\* A generator that hands out the same verifier to every attempt.
VerifierOf_Reused(n) == VerifierNames[1]
VerifierOf(n) == VerifierNames[n]

\* One query parameter, name=value.  "x" "code" spells the name xcode.
QueryParams ==
    { <<"code", "=", "c">>,
      <<"error", "=", "denied">>,
      <<"error_description", "=", "d">>,
      <<"x", "code", "=", "c">>,
      <<"state", "=", "bogus">> }
    \cup { <<"state", "=", StateOf(n)>> : n \in 1..MaxAttempts }

RECURSIVE Queries(_)
\* The query strings of at most n parameters (without the leading "?").
Queries(n) ==
    IF n = 0 THEN { <<>> }
    ELSE LET shorter == Queries(n - 1)
         IN  shorter \cup
             { IF q = <<>> THEN p ELSE q \o <<"&">> \o p :
                 q \in shorter, p \in QueryParams }

Paths ==
    { <<prefix>> \o (IF q = <<>> THEN <<>> ELSE <<"?">> \o q) :
        prefix \in {"/callback", "/other"}, q \in Queries(MaxParams) }

\* What handle_connection can read from a connection:
\*   read = FALSE          stream.read failed or timed out
\*   line = FALSE          no first line (nothing was sent)
\*   parts                 the whitespace-separated words of the first line
Requests ==
    { [read |-> FALSE, line |-> FALSE, parts |-> <<>>],
      [read |-> TRUE, line |-> FALSE, parts |-> <<>>],
      [read |-> TRUE, line |-> TRUE, parts |-> <<>>],
      [read |-> TRUE, line |-> TRUE, parts |-> << <<"GET">> >>] }
    \cup { [read |-> TRUE, line |-> TRUE, parts |-> << <<m>>, p, <<"HTTP/1.1">> >>] :
             m \in {"GET", "POST"}, p \in Paths }

(***************************************************************************)
(* callback_server.rs: handle_connection                                   *)
(***************************************************************************)
Origin == "http://localhost:28491"

\* format!("http://localhost:{}{}", CALLBACK_PORT, path)
CallbackUrl(path) == <<Origin>> \o path

\* path.contains("error=")
IsErrorCallback(path) == Contains(path, <<"error", "=">>)

\* path.contains("code=")
HasCodeParameter(path) == Contains(path, <<"code", "=">>)

\* The value handle_connection returns: [some |-> TRUE, url |-> ...] for
\* Some(url), [some |-> FALSE, status |-> ...] for None, with the HTTP status
\* it answered (0 when it answered nothing).
NoUrl(status) == [some |-> FALSE, url |-> <<>>, status |-> status]
SomeUrl(path) == [some |-> TRUE, url |-> CallbackUrl(path), status |-> 200]

handle_connection(req) ==
    IF ~req.read THEN NoUrl(0)
    ELSE IF ~req.line THEN NoUrl(0)
    ELSE IF Len(req.parts) < 2 THEN NoUrl(400)
    ELSE LET method == req.parts[1]
             path == req.parts[2]
         IN  IF method # <<"GET">> THEN NoUrl(405)
             ELSE IF ~StartsWith(path, <<"/callback">>) THEN NoUrl(404)
             ELSE IF IsErrorCallback(path) THEN SomeUrl(path)
             ELSE IF ~HasCodeParameter(path) THEN NoUrl(400)
             ELSE SomeUrl(path)

(***************************************************************************)
(* oauth.rs: parse_callback_url                                            *)
(***************************************************************************)
\* Url::query: what follows the first "?", None when there is no "?".
UrlQuery(url) ==
    LET i == IndexOf(url, "?")
    IN  IF i = 0 THEN <<>> ELSE SubSeq(url, i + 1, Len(url))

\* The character a %XX escape stands for; the escapes the model's inputs use
\* are spelled out, any other byte is the symbol "byte".
HexDigits == {"0", "1", "2", "3", "4", "5", "6", "7", "8", "9", "A", "B", "C", "D", "E", "F"}
PercentByte(h1, h2) ==
    CASE <<h1, h2>> = <<"2", "0">> -> " "
      [] <<h1, h2>> = <<"2", "6">> -> "&"
      [] <<h1, h2>> = <<"3", "D">> -> "="
      [] <<h1, h2>> = <<"2", "B">> -> "+"
      [] OTHER -> "byte"

\* form_urlencoded's decoding of a name or a value: "+" is a space, "%" and
\* two hex digits are the byte they spell, a "%" without them stays.
RECURSIVE PercentDecode(_)
PercentDecode(s) ==
    IF s = <<>> THEN <<>>
    ELSE IF s[1] = "+" THEN <<" ">> \o PercentDecode(Tail(s))
    ELSE IF s[1] = "%" /\ Len(s) >= 3 /\ s[2] \in HexDigits /\ s[3] \in HexDigits
         THEN <<PercentByte(s[2], s[3])>> \o PercentDecode(SubSeq(s, 4, Len(s)))
    ELSE <<s[1]>> \o PercentDecode(Tail(s))

\* A split into (name, value) that leaves both as they were sent.
QueryPair_Raw(seg) ==
    LET i == IndexOf(seg, "=")
    IN  IF i = 0 THEN [name |-> seg, value |-> <<>>]
        ELSE [name |-> SubSeq(seg, 1, i - 1), value |-> SubSeq(seg, i + 1, Len(seg))]

\* Url::query_pairs: the non-empty "&"-separated segments, each split at its
\* first "=" into (name, value), both decoded.
QueryPair(seg) ==
    LET i == IndexOf(seg, "=")
    IN  IF i = 0 THEN [name |-> PercentDecode(seg), value |-> <<>>]
        ELSE [name |-> PercentDecode(SubSeq(seg, 1, i - 1)),
              value |-> PercentDecode(SubSeq(seg, i + 1, Len(seg)))]

QueryPairs(url) ==
    LET segs == Split(UrlQuery(url), "&")
        kept == SelectSeq(segs, LAMBDA seg : seg # <<>>)
    IN  [i \in 1..Len(kept) |-> QueryPair(kept[i])]

\* HashMap::get after collect(): the value of the last pair named name.
HasParam(pairs, name) == \E i \in 1..Len(pairs) : pairs[i].name = name
GetParam(pairs, name) ==
    LET i == CHOOSE k \in 1..Len(pairs) :
                 pairs[k].name = name /\ \A j \in (k + 1)..Len(pairs) : pairs[j].name # name
    IN  pairs[i].value

\* Url::parse accepts a string that starts with a scheme and a host, as the
\* URLs the listener builds do; a string without them is a relative URL,
\* which it rejects.
UrlParses(url) == Len(url) >= 1 /\ url[1] = Origin

\* Err(e); desc is the String an AuthError::OAuthFailed carries.
ParseErr(e) == [ok |-> FALSE, err |-> e, desc |-> <<>>, code |-> <<>>, state |-> <<>>]

\* Err(AuthError::OAuthFailed(description))
OAuthFailed(description) == [ParseErr("OAuthFailed") EXCEPT !.desc = description]

\* parse_callback_url without its check of the `error` parameter.
parse_callback_url_NoErrorCheck(url) ==
    IF ~UrlParses(url) THEN ParseErr("InvalidAuthCode")
    ELSE LET params == QueryPairs(url)
         IN  IF ~HasParam(params, <<"code">>) THEN ParseErr("InvalidAuthCode")
             ELSE IF ~HasParam(params, <<"state">>) THEN ParseErr("StateValidationFailed")
             ELSE [ok |-> TRUE, err |-> None, desc |-> <<>>,
                   code |-> GetParam(params, <<"code">>),
                   state |-> GetParam(params, <<"state">>)]

parse_callback_url(url) ==
    IF ~UrlParses(url) THEN ParseErr("InvalidAuthCode")
    ELSE LET params == QueryPairs(url)
         IN  IF HasParam(params, <<"error">>)
             THEN OAuthFailed(IF HasParam(params, <<"error_description">>)
                              THEN GetParam(params, <<"error_description">>)
                              ELSE GetParam(params, <<"error">>))
             ELSE IF ~HasParam(params, <<"code">>) THEN ParseErr("InvalidAuthCode")
             ELSE IF ~HasParam(params, <<"state">>) THEN ParseErr("StateValidationFailed")
             ELSE [ok |-> TRUE, err |-> None, desc |-> <<>>,
                   code |-> GetParam(params, <<"code">>),
                   state |-> GetParam(params, <<"state">>)]


(***************************************************************************)
(* State.                                                                  *)
(***************************************************************************)
VARIABLES
    \* ---- callback listener threads (main.rs:257-260, callback_server.rs)
    listeners,      \* l -> [pc, req, result]: the thread of sign-in attempt l
    cancel_ch,      \* l -> the std::sync::mpsc channel (ctx, crx) of attempt l
    port,           \* the listener that holds 127.0.0.1:28491, 0 when free
    \* ---- run_background_tasks (main.rs:209-490)
    bg_pc,          \* where the background task is suspended
    bg_tok,         \* the refresh token a handler has read from the keychain
    cancel_tx,      \* Option<Sender<()>>: the attempt whose sender is held, 0 for None
    pending_pkce,   \* Option<PkceChallenge>
    pending_state,  \* Option<String>
    attempts,       \* number of SignIn actions handled so far
    callback_ch,    \* the mpsc::channel::<CallbackResult>(1)
    exchange_log,   \* the exchange_code calls made so far
    last_action,    \* the MenuAction handled last; SignOut and ClearData whose
                    \*   delete_all returned an error are recorded as failed
    \* ---- AppState (menubar/state.rs), as set by menubar/updates.rs
    auth_state,
    error_message,
    \* ---- keychain (keychain/mod.rs) and the identity provider
    keychain,       \* the four records: Absent, or the response the value came from
    \* ---- try_restore_session (main.rs:156-206)
    restore_pc,
    restore_tok,
    \* ---- TokenManager (auth/token_manager.rs)
    api_pc,         \* where the caller of the TokenManager is suspended
    command_tx,     \* Option<mpsc::Sender<TokenMessage>>: the loop it feeds, 0 for None
    is_running,     \* the shared Arc<Mutex<bool>>
    loops,          \* k -> the task spawned by the k-th start: pc, first_tick, rx
                    \*   (its channel), tok (the refresh token it read), due (ticks
                    \*   of its interval that are ready), intervals (full periods
                    \*   elapsed since it was spawned), stopped (a stop_auto_refresh
                    \*   for it has returned), trigger (what started its refresh)
    starts,         \* number of start_auto_refresh calls so far
    consecutive_starts, \* start_auto_refresh calls completed since the last stop_auto_refresh
    on_refresh,     \* calls of the on_refresh callback: how many, and the last one
    refresh_now,    \* calls of refresh_now, and the refresh attempts made for them
    \* ---- one call of a library function, made by a caller of its own
    call,           \* the last call: [fn, arg, done, result]
    last_stored,    \* record -> what its caller knows of it: the value of the last
                    \*   store_* that returned Ok, "Deleted" after a delete_all
                    \*   that returned Ok, Absent when neither was called
    \* ---- AppState beyond the auth state (menubar/state.rs), each field
    \*      behind a Mutex of its own, and the threads that write it
    user_info,      \* Mutex<Option<UserInfo>>
    token_expiry,   \* Mutex<Option<DateTime<Utc>>>
    main_pc,        \* the closure the main thread is running, and where it is
    pim_state,      \* Mutex<PimState>
    toggle,         \* the ToggleFavorite handler on the background task: where
                    \*   it is, its role_key and its copy of the PimState
    \* ---- PimCache (pim/cache.rs)
    pim_cache,      \* Option<CachedData>: NoCache, or [data, cached_at]
    utc_now         \* Utc::now(), in ticks

listenerVars == <<listeners, cancel_ch, port>>
orchVars == <<bg_pc, bg_tok, cancel_tx, pending_pkce, pending_state, attempts,
              callback_ch, exchange_log, last_action>>
uiVars == <<auth_state, error_message>>
storeVars == <<keychain>>
restoreVars == <<restore_pc, restore_tok>>
tmVars == <<api_pc, command_tx, is_running, loops, starts, consecutive_starts,
            on_refresh, refresh_now>>
apiVars == <<call, last_stored>>
appVars == <<user_info, token_expiry, main_pc, pim_state, toggle, pim_cache, utc_now>>
vars == <<listenerVars, orchVars, uiVars, storeVars, restoreVars, tmVars, apiVars, appVars>>

Attempts == 1..MaxAttempts

(***************************************************************************)
(* callback_server.rs: start_callback_server, one step per blocking call.  *)
(***************************************************************************)
NoRequest == [read |-> FALSE, line |-> FALSE, parts |-> <<>>]
NoResult == [kind |-> None, url |-> <<>>, msg |-> None]
Success(url) == [kind |-> "Success", url |-> url, msg |-> None]
Cancelled == [kind |-> "Cancelled", url |-> <<>>, msg |-> None]
Error(msg) == [kind |-> "Error", url |-> <<>>, msg |-> msg]

NoListener == [pc |-> "none", req |-> NoRequest, result |-> NoResult]

\* A return that leaves the port bound.
Return_KeepsPort(l, result) ==
    /\ listeners' = [listeners EXCEPT ![l] =
                        [pc |-> "returned", req |-> NoRequest, result |-> result]]
    /\ port' = port

\* The function returns: the TcpListener is dropped, which frees the port if
\* this listener had bound it.
Return(l, result) ==
    /\ listeners' = [listeners EXCEPT ![l] =
                        [pc |-> "returned", req |-> NoRequest, result |-> result]]
    /\ port' = IF port = l THEN 0 ELSE port

\* A cancellation check that takes only Ok(()) for a cancellation.
CancelSeen_SignalOnly(l) == cancel_ch[l] = "signal"

\* cancel_rx.try_recv() returns Ok(()) or Err(Disconnected)
CancelSeen(l) == cancel_ch[l] \in {"signal", "disconnected"}

\* TcpListener::bind and set_nonblocking (lines 36-52).  faults: whether the
\* operating system may fail a call for a reason other than a busy port.
Listener_Bind(l, faults) ==
    /\ listeners[l].pc = "bind"
    /\ IF port # 0
       THEN Return(l, Error("Failed to start server"))
       ELSE \/ /\ listeners' = [listeners EXCEPT ![l].pc = "check"]
               /\ port' = l
            \/ /\ faults
               /\ Return(l, Error("Server configuration error"))
    /\ UNCHANGED <<cancel_ch, orchVars, uiVars, storeVars, restoreVars, apiVars, appVars, tmVars>>

\* The cancellation check at the top of the loop (lines 55-62)
Listener_CheckCancel(l) ==
    /\ listeners[l].pc = "check"
    /\ IF CancelSeen(l)
       THEN Return(l, Cancelled)
       ELSE /\ listeners' = [listeners EXCEPT ![l].pc = "accept"]
            /\ UNCHANGED port
    /\ UNCHANGED <<cancel_ch, orchVars, uiVars, storeVars, restoreVars, apiVars, appVars, tmVars>>

\* listener.accept() (lines 65-87): a connection, WouldBlock followed by the
\* 100 ms sleep, or another error.
Listener_Accept(l, requests, faults) ==
    /\ listeners[l].pc = "accept"
    /\ \/ \E req \in requests :
             /\ listeners' = [listeners EXCEPT ![l].pc = "handle", ![l].req = req]
             /\ UNCHANGED port
       \/ /\ listeners' = [listeners EXCEPT ![l].pc = "check"]
          /\ UNCHANGED port
       \/ /\ faults
          /\ Return(l, Error("Connection error"))
    /\ UNCHANGED <<cancel_ch, orchVars, uiVars, storeVars, restoreVars, apiVars, appVars, tmVars>>

\* handle_connection(stream) and the match on its value (lines 68-77)
Listener_Handle(l) ==
    /\ listeners[l].pc = "handle"
    /\ LET r == handle_connection(listeners[l].req)
       IN  IF r.some
           THEN Return(l, Success(r.url))
           ELSE /\ listeners' = [listeners EXCEPT ![l].pc = "check", ![l].req = NoRequest]
                /\ UNCHANGED port
    /\ UNCHANGED <<cancel_ch, orchVars, uiVars, storeVars, restoreVars, apiVars, appVars, tmVars>>

\* The holder of the Sender sends the cancel signal, or drops the Sender.
Caller_Cancel(l) ==
    /\ cancel_ch[l] = "empty"
    /\ listeners[l].pc \notin {"none", "returned"}
    /\ cancel_ch' = [cancel_ch EXCEPT ![l] = "signal"]
    /\ UNCHANGED <<listeners, port, orchVars, uiVars, storeVars, restoreVars, apiVars, appVars, tmVars>>

Caller_Drop(l) ==
    /\ cancel_ch[l] = "empty"
    /\ listeners[l].pc \notin {"none", "returned"}
    /\ cancel_ch' = [cancel_ch EXCEPT ![l] = "disconnected"]
    /\ UNCHANGED <<listeners, port, orchVars, uiVars, storeVars, restoreVars, apiVars, appVars, tmVars>>

(***************************************************************************)
(* Initial values of each part of the state.                               *)
(***************************************************************************)
\* A record holds Absent or the name of the token response its value came
\* from: "previous" (a previous run of the program), "exchange", "restore",
\* "refresh".
Absent == "Absent"
EmptyKeychain == [access_token |-> Absent, refresh_token |-> Absent, user_info |-> Absent,
                  token_expiry |-> Absent]
\* The records a previous run of the program left behind.
StoredSession == [access_token |-> "previous", refresh_token |-> "previous",
                  user_info |-> "previous", token_expiry |-> "previous"]

ListenerIdle ==
    /\ listeners = [l \in Attempts |-> NoListener]
    /\ cancel_ch = [l \in Attempts |-> "empty"]
    /\ port = 0

OrchIdle ==
    /\ bg_pc = "select"
    /\ bg_tok = Absent
    /\ cancel_tx = 0
    /\ pending_pkce = None
    /\ pending_state = None
    /\ attempts = 0
    /\ callback_ch = <<>>
    /\ exchange_log = <<>>
    /\ last_action = None

UiIdle ==
    /\ auth_state = "SignedOut"
    /\ error_message = None

RestoreIdle ==
    /\ restore_pc = "done"
    /\ restore_tok = Absent

\* A loop that was not spawned.
NoLoop == [pc |-> "none", first_tick |-> TRUE, rx |-> <<>>, tok |-> Absent, due |-> 0,
           intervals |-> 0, stopped |-> FALSE, trigger |-> None]

TmIdle ==
    /\ api_pc = "idle"
    /\ command_tx = 0
    /\ is_running = FALSE
    /\ loops = [k \in 1..MaxStarts |-> NoLoop]
    /\ starts = 0
    /\ consecutive_starts = 0
    /\ on_refresh = [calls |-> 0, by |-> 0, trigger |-> None, ok |-> FALSE]
    /\ refresh_now = [calls |-> 0, attempts |-> 0]

\* No library function has been called.
NoCall == [fn |-> None, arg |-> <<>>, done |-> FALSE, result |-> <<>>]

\* AppState::new (state.rs:43-51) with the main thread and the background
\* task's ToggleFavorite handler at rest, an empty PimCache, the clock at 0.
NoPimState == [favorite_role_keys |-> <<>>, eligible_roles |-> None,
               active_assignments |-> None, api_status |-> "Unknown"]
NoToggle == [pc |-> "idle", role_key |-> None, pim_state |-> NoPimState]
NoClosure == [fn |-> None, step |-> 0, arg |-> <<>>, pim_state |-> NoPimState]
NoCache == [set |-> FALSE, data |-> None, cached_at |-> 0]

AppIdle ==
    /\ user_info = None
    /\ token_expiry = None
    /\ main_pc = NoClosure
    /\ pim_state = NoPimState
    /\ toggle = NoToggle
    /\ pim_cache = NoCache
    /\ utc_now = 0

ApiIdle ==
    /\ call = NoCall
    /\ last_stored = EmptyKeychain

(***************************************************************************)
(* menubar/updates.rs: the update_* functions run their closure on the     *)
(* main thread's serial queue, in the order they were dispatched.          *)
(***************************************************************************)
update_signed_out ==
    /\ auth_state' = "SignedOut"
    /\ error_message' = None

update_authenticating ==
    /\ auth_state' = "Authenticating"
    /\ error_message' = None

update_signed_in ==
    /\ auth_state' = "SignedIn"
    /\ error_message' = None

update_error(message) ==
    /\ auth_state' = "Error"
    /\ error_message' = message

\* The actions the menu shown in each state can send (menubar/builder.rs:
\* build_signed_out_menu, build_authenticating_menu, build_signed_in_menu,
\* build_error_menu).
MenuOffers(action) ==
    CASE action = "SignIn" -> auth_state \in {"SignedOut", "Error"}
      [] action = "CancelSignIn" -> auth_state = "Authenticating"
      [] action = "SignOut" -> auth_state \in {"SignedIn", "Error"}
      [] action = "RefreshToken" -> auth_state = "SignedIn"
      [] action = "ClearData" -> auth_state = "SignedIn"
      [] action = "RefreshPimRoles" -> auth_state = "SignedIn"

(***************************************************************************)
(* The identity provider and the keychain writes that follow a response.   *)
(***************************************************************************)
\* Whether a TokenResponse carries a refresh token.  Azure AD returns one with
\* every response to a request whose scope has offline_access, which is how
\* the program is configured.
Responses == {TRUE}

\* A TokenResponse to the request named by `from`: its access token and,
\* when with_refresh, its refresh token (refresh_token: Option<String>).
TokenResponse(from, with_refresh) ==
    [access_token |-> from, refresh_token |-> IF with_refresh THEN from ELSE Absent]

\* The three writes with their results ignored.
StoreTokens_Unchecked(kc, resp, fail_at) ==
    LET kc1 == IF fail_at = 1 THEN kc ELSE [kc EXCEPT !.access_token = resp.access_token]
        kc2 == IF fail_at = 2 \/ resp.refresh_token = Absent THEN kc1
               ELSE [kc1 EXCEPT !.refresh_token = resp.refresh_token]
        kc3 == IF fail_at = 3 THEN kc2 ELSE [kc2 EXCEPT !.token_expiry = resp.access_token]
    IN  [ok |-> TRUE, kc |-> kc3]

\* The three writes, undone by deleting the records when one of them fails.
StoreTokens_Rollback(kc, resp, fail_at) ==
    LET kc1 == [kc EXCEPT !.access_token = resp.access_token]
        kc2 == IF resp.refresh_token # Absent
               THEN [kc1 EXCEPT !.refresh_token = resp.refresh_token] ELSE kc1
        kc3 == [kc2 EXCEPT !.token_expiry = resp.access_token]
        undone == [kc EXCEPT !.access_token = Absent, !.refresh_token = Absent,
                             !.token_expiry = Absent]
    IN  IF fail_at \in {1, 3} \/ (fail_at = 2 /\ resp.refresh_token # Absent)
        THEN [ok |-> FALSE, kc |-> undone]
        ELSE [ok |-> TRUE, kc |-> kc3]

\* The writes of a sequence that removes the stored refresh token when the
\* response has none.
StoreTokens_ClearsRefresh(kc, resp, fail_at) ==
    LET kc1 == [kc EXCEPT !.access_token = resp.access_token]
        kc2 == [kc1 EXCEPT !.refresh_token = resp.refresh_token]
        kc3 == [kc2 EXCEPT !.token_expiry = resp.access_token]
    IN  IF fail_at = 1 THEN [ok |-> FALSE, kc |-> kc]
        ELSE IF fail_at = 2 /\ resp.refresh_token # Absent THEN [ok |-> FALSE, kc |-> kc1]
        ELSE IF fail_at = 3 THEN [ok |-> FALSE, kc |-> kc2]
        ELSE [ok |-> TRUE, kc |-> kc3]

\* The three writes with the expiry written first.
StoreTokens_ExpiryFirst(kc, resp, fail_at) ==
    LET kc1 == [kc EXCEPT !.token_expiry = resp.access_token]
        kc2 == [kc1 EXCEPT !.access_token = resp.access_token]
        kc3 == IF resp.refresh_token # Absent
               THEN [kc2 EXCEPT !.refresh_token = resp.refresh_token] ELSE kc2
    IN  IF fail_at = 3 THEN [ok |-> FALSE, kc |-> kc]
        ELSE IF fail_at = 1 THEN [ok |-> FALSE, kc |-> kc1]
        ELSE IF fail_at = 2 /\ resp.refresh_token # Absent THEN [ok |-> FALSE, kc |-> kc2]
        ELSE [ok |-> TRUE, kc |-> kc3]

\* store_access_token, store_refresh_token (if the response has one) and
\* store_token_expiry, in this order, each returning early with `?` when it
\* fails; fail_at is the write that fails (0: none).
StoreTokens(kc, resp, fail_at) ==
    LET kc1 == [kc EXCEPT !.access_token = resp.access_token]
        kc2 == IF resp.refresh_token # Absent
               THEN [kc1 EXCEPT !.refresh_token = resp.refresh_token] ELSE kc1
        kc3 == [kc2 EXCEPT !.token_expiry = resp.access_token]
    IN  IF fail_at = 1 THEN [ok |-> FALSE, kc |-> kc]
        ELSE IF fail_at = 2 /\ resp.refresh_token # Absent THEN [ok |-> FALSE, kc |-> kc1]
        ELSE IF fail_at = 3 THEN [ok |-> FALSE, kc |-> kc2]
        ELSE [ok |-> TRUE, kc |-> kc3]

\* A delete_all that returns at the first deletion that fails, in the order
\* access token, refresh token, user info, expiry.
delete_all_StopsAtFirst(kc, failing) ==
    LET order == <<"access_token", "refresh_token", "user_info", "token_expiry">>
        rank(r) == CHOOSE i \in 1..4 : order[i] = r
    IN  [r \in {"access_token", "refresh_token", "user_info", "token_expiry"} |->
            IF \E q \in failing : kc[q] # "Absent" /\ rank(q) <= rank(r)
            THEN kc[r] ELSE "Absent"]

\* A delete_all that deletes the two tokens only.
delete_all_TokensOnly(kc, failing) ==
    [r \in {"access_token", "refresh_token", "user_info", "token_expiry"} |->
        IF r \in failing \/ r \in {"user_info", "token_expiry"} THEN kc[r] ELSE Absent]

\* keychain::delete_all: every record is deleted except those whose deletion
\* fails; it returns Ok iff no deletion failed.
Records == {"access_token", "refresh_token", "user_info", "token_expiry"}
delete_all(kc, failing) ==
    [r \in Records |-> IF r \in failing THEN kc[r] ELSE Absent]

(***************************************************************************)
(* keychain/mod.rs: the functions one by one.  The Keychain answers each   *)
(* request with Ok, with errSecItemNotFound when the item does not exist,  *)
(* or, when the request is made to fail, with another error.               *)
(***************************************************************************)
\* Lines 17-20: the account name of each record.
ACCOUNT(r) ==
    CASE r = "access_token" -> "azure_access_token"
      [] r = "refresh_token" -> "azure_refresh_token"
      [] r = "user_info" -> "azure_user_info"
      [] r = "token_expiry" -> "azure_token_expiry"

\* The item the Keychain keeps under (SERVICE, account).
ItemOf(account) == CHOOSE r \in Records : ACCOUNT(r) = account

\* Bytes that are not UTF-8, left in an item by another program.
InvalidUtf8 == "InvalidUtf8"

\* A test that takes no error for "item not found".
is_not_found_error_Never(error) == FALSE

\* is_not_found_error (lines 141-144): error.code() == -25300
is_not_found_error(error) == error = "errSecItemNotFound"

\* Every store_* function under the account of the refresh token.
StoreAccount_Refresh(r) == "azure_refresh_token"

\* The account store_access_token, store_refresh_token, store_token_expiry and
\* store_user_info pass to set_generic_password (lines 24, 48, 72, 92).
StoreAccount(r) == ACCOUNT(r)

\* store_<r>(value) (lines 23-26, 47-50, 71-74, 91-94): the item is created
\* or overwritten with the bytes of the string.
store_value(kc, r, value, fails) ==
    IF fails THEN [ok |-> FALSE, err |-> "StoreFailed", kc |-> kc]
    ELSE [ok |-> TRUE, err |-> None, kc |-> [kc EXCEPT ![ItemOf(StoreAccount(r))] = value]]

\* What get_generic_password answers for an item.
GetError(kc, item, fails) ==
    IF kc[item] = Absent THEN "errSecItemNotFound"
    ELSE IF fails THEN "errSecOther"
    ELSE "Ok"

\* get_<r>() (lines 31-44, 55-68, 78-88, 98-108): NotFound, RetrieveFailed
\* for another error or for bytes that are not UTF-8, else the string.
get_value(kc, r, fails) ==
    LET item == ItemOf(ACCOUNT(r))
        e == GetError(kc, item, fails)
    IN  IF e # "Ok"
        THEN [ok |-> FALSE,
              err |-> IF is_not_found_error(e) THEN "NotFound" ELSE "RetrieveFailed",
              value |-> Absent]
        ELSE IF kc[item] = InvalidUtf8
             THEN [ok |-> FALSE, err |-> "RetrieveFailed", value |-> Absent]
        ELSE [ok |-> TRUE, err |-> None, value |-> kc[item]]

\* What delete_generic_password answers for a record; failing: the records
\* whose removal fails.
DeleteError(kc, r, failing) ==
    IF kc[r] = Absent THEN "errSecItemNotFound"
    ELSE IF r \in failing THEN "errSecOther"
    ELSE "Ok"

\* A delete_all that reports every error of a deletion.
delete_all_returns_AnyError(kc, failing) ==
    IF \E r \in Records : DeleteError(kc, r, failing) # "Ok" THEN "DeleteFailed" ELSE "Ok"

\* delete_all (lines 122-131): what it returns.
delete_all_returns(kc, failing) ==
    IF \E r \in Records :
          /\ DeleteError(kc, r, failing) # "Ok"
          /\ ~is_not_found_error(DeleteError(kc, r, failing))
    THEN "DeleteFailed"
    ELSE "Ok"

\* Lines 115-120: the order in which the four deletions are made and their
\* results are examined.
DeleteOrder == <<ACCOUNT("access_token"), ACCOUNT("refresh_token"), ACCOUNT("user_info"),
                 ACCOUNT("token_expiry")>>

\* Lines 123-129: the record whose error the returned DeleteFailed carries,
\* the first in DeleteOrder with an error other than not-found; None for Ok.
delete_all_error(kc, failing) ==
    LET bad == {i \in 1..Len(DeleteOrder) :
                   LET e == DeleteError(kc, ItemOf(DeleteOrder[i]), failing)
                   IN  e # "Ok" /\ ~is_not_found_error(e)}
    IN  IF bad = {} THEN None
        ELSE ItemOf(DeleteOrder[CHOOSE i \in bad : \A j \in bad : i <= j])

(***************************************************************************)
(* auth/token_manager.rs: refresh_token_internal (lines 138-159) as one    *)
(* call.  get_fails: the Keychain fails the read; provider_ok: the         *)
(* provider answers with tokens; fail_at: the write that fails (0: none).  *)
(***************************************************************************)
RefreshOutcome(ok, err, contacted, kc) ==
    [ok |-> ok, err |-> err, contacted |-> contacted, kc |-> kc]

refresh_token_internal(kc, get_fails, provider_ok, with_refresh, fail_at) ==
    LET got == get_value(kc, "refresh_token", get_fails)
        stored == StoreTokens(kc, TokenResponse("refresh", with_refresh), fail_at)
    IN  IF ~got.ok THEN RefreshOutcome(FALSE, got.err, FALSE, kc)
        ELSE IF ~provider_ok THEN RefreshOutcome(FALSE, "TokenRefreshFailed", TRUE, kc)
        ELSE IF ~stored.ok THEN RefreshOutcome(FALSE, "StoreFailed", TRUE, stored.kc)
        ELSE RefreshOutcome(TRUE, None, TRUE, stored.kc)

(***************************************************************************)
(* main.rs: MenuAction::RefreshPimRoles (lines 355-419), its two token     *)
(* requests as one call.  user_known: AppState holds the user info;        *)
(* graph_ok, mgmt_ok: the provider answers the request with tokens;        *)
(* with_refresh: its answers carry a new refresh token.  sent lists the    *)
(* refresh token of each request made, issued the refresh token each       *)
(* answer carried (Absent for none).  Only response.access_token is used   *)
(* (lines 384, 409); nothing is written to the keychain.                   *)
(***************************************************************************)
PimOutcome(outcome, sent, issued, kc) ==
    [outcome |-> outcome, sent |-> sent, issued |-> issued, kc |-> kc]

RefreshPimRoles(kc, user_known, graph_ok, mgmt_ok, with_refresh) ==
    LET got == get_value(kc, "refresh_token", FALSE)
        token == got.value
        graph == TokenResponse("pim_graph", with_refresh)
        mgmt == TokenResponse("pim_management", with_refresh)
    IN  IF ~got.ok THEN PimOutcome("Sign in required", <<>>, <<>>, kc)
        ELSE IF ~user_known THEN PimOutcome("User info not available", <<>>, <<>>, kc)
        ELSE IF ~graph_ok
             THEN PimOutcome("Failed to refresh token", <<token>>, <<Absent>>, kc)
        ELSE IF ~mgmt_ok
             THEN PimOutcome("PIM access not available", <<token, token>>,
                             <<graph.refresh_token, Absent>>, kc)
        ELSE PimOutcome("roles", <<token, token>>,
                        <<graph.refresh_token, mgmt.refresh_token>>, kc)

(***************************************************************************)
(* main.rs: handle_oauth_callback (lines 493-546)                          *)
(***************************************************************************)
\* A comparison that accepts every state.
StateMatches_Any(expected_state, state) == TRUE

\* expected_state.as_ref() != Some(&state) is the negation of this.
StateMatches(expected_state, state) ==
    expected_state # None /\ state = <<expected_state>>

\* What can go wrong after the checks: nothing, the code exchange, one of the
\* three token writes, the two Graph calls, the user-info write.
CallbackFailures ==
    {"none", "exchange", "store1", "store2", "store3", "profile", "organization",
     "store_user_info"}

FailAt(failure) ==
    CASE failure = "store1" -> 1 [] failure = "store2" -> 2 [] failure = "store3" -> 3
      [] OTHER -> 0

\* The result of handle_oauth_callback: ok, the error message, whether
\* exchange_code was called, and the keychain it leaves.
CallbackOutcome(ok, err, exchanged, kc) ==
    [ok |-> ok, err |-> err, exchanged |-> exchanged, kc |-> kc]

handle_oauth_callback(url, pkce, expected_state, kc, with_refresh, failure) ==
    LET parsed == parse_callback_url(url)
        resp == TokenResponse("exchange", with_refresh)
        stored == StoreTokens(kc, resp, FailAt(failure))
    IN  IF ~parsed.ok THEN CallbackOutcome(FALSE, parsed.err, FALSE, kc)
        ELSE IF ~StateMatches(expected_state, parsed.state)
             THEN CallbackOutcome(FALSE, "State mismatch", FALSE, kc)
        ELSE IF pkce = None
             THEN CallbackOutcome(FALSE, "No pending PKCE challenge", FALSE, kc)
        ELSE IF failure = "exchange"
             THEN CallbackOutcome(FALSE, "Failed to exchange authorization code", TRUE, kc)
        ELSE IF ~stored.ok
             THEN CallbackOutcome(FALSE, "Failed to store token", TRUE, stored.kc)
        ELSE IF failure = "profile"
             THEN CallbackOutcome(FALSE, "Failed to fetch user profile", TRUE, stored.kc)
        ELSE IF failure = "organization"
             THEN CallbackOutcome(FALSE, "Failed to fetch organization", TRUE, stored.kc)
        ELSE IF failure = "store_user_info"
             THEN CallbackOutcome(FALSE, "Failed to store token", TRUE, stored.kc)
        ELSE CallbackOutcome(TRUE, None, TRUE,
                             [stored.kc EXCEPT !.user_info = resp.access_token])

(***************************************************************************)
(* main.rs: run_background_tasks, the menu-action branch (lines 229-446)   *)
(***************************************************************************)
\* cancel_tx.take() followed by ctx.send(()): the signal is queued for the
\* listener whose Sender was held.
SendCancel(ch) ==
    IF cancel_tx # 0 /\ ch[cancel_tx] = "empty"
    THEN [ch EXCEPT ![cancel_tx] = "signal"] ELSE ch

\* cancel_tx = None: a held Sender is dropped without sending.
DropCancel(ch) ==
    IF cancel_tx # 0 /\ ch[cancel_tx] = "empty"
    THEN [ch EXCEPT ![cancel_tx] = "disconnected"] ELSE ch

\* MenuAction::SignIn (lines 231-271).  The 50 ms sleep after the cancel is a
\* timed wait, not a synchronisation: the old listener sleeps 100 ms between
\* polls and may block 5 s in a read, so the new thread's bind is ordered
\* neither before nor after the old listener's return.
Bg_SignIn(browser_opens) ==
    /\ bg_pc = "select"
    /\ MenuOffers("SignIn")
    /\ attempts < MaxAttempts
    /\ LET n == attempts + 1
           cancelled == SendCancel(cancel_ch)
       IN  /\ attempts' = n
           /\ pending_pkce' = VerifierOf(n)
           /\ pending_state' = StateOf(n)
           /\ listeners' = [listeners EXCEPT ![n] = [NoListener EXCEPT !.pc = "bind"]]
           /\ IF browser_opens
              THEN /\ cancel_tx' = n
                   /\ cancel_ch' = cancelled
                   /\ update_authenticating
              ELSE /\ cancel_tx' = 0
                   /\ cancel_ch' = [cancelled EXCEPT ![n] = "signal"]
                   /\ update_error("Failed to open browser")
    /\ last_action' = "SignIn"
    /\ UNCHANGED <<port, bg_pc, bg_tok, callback_ch, exchange_log, storeVars,
                   restoreVars, apiVars, appVars, tmVars>>

\* MenuAction::SignOut (lines 272-284).  failing: the records whose deletion
\* fails.
Bg_SignOut(failing) ==
    /\ bg_pc = "select"
    /\ MenuOffers("SignOut")
    /\ cancel_ch' = SendCancel(cancel_ch)
    /\ cancel_tx' = 0
    /\ pending_pkce' = None
    /\ pending_state' = None
    /\ keychain' = delete_all(keychain, failing)
    /\ update_signed_out
    /\ last_action' = IF delete_all_returns(keychain, failing) = "Ok" THEN "SignOut"
                      ELSE "SignOutFailed"
    /\ UNCHANGED <<listeners, port, bg_pc, bg_tok, attempts, callback_ch, exchange_log,
                   restoreVars, apiVars, appVars, tmVars>>

\* MenuAction::ClearData (lines 316-322).  failing: the records whose deletion
\* fails.
Bg_ClearData(failing) ==
    /\ bg_pc = "select"
    /\ MenuOffers("ClearData")
    /\ keychain' = delete_all(keychain, failing)
    /\ update_signed_out
    /\ last_action' = IF delete_all_returns(keychain, failing) = "Ok" THEN "ClearData"
                      ELSE "ClearDataFailed"
    /\ UNCHANGED <<listenerVars, bg_pc, bg_tok, cancel_tx, pending_pkce, pending_state,
                   attempts, callback_ch, exchange_log, restoreVars, apiVars, appVars, tmVars>>

\* MenuAction::CancelSignIn (lines 323-332)
Bg_CancelSignIn ==
    /\ bg_pc = "select"
    /\ MenuOffers("CancelSignIn")
    /\ cancel_ch' = SendCancel(cancel_ch)
    /\ cancel_tx' = 0
    /\ pending_pkce' = None
    /\ pending_state' = None
    /\ update_signed_out
    /\ last_action' = "CancelSignIn"
    /\ UNCHANGED <<listeners, port, bg_pc, bg_tok, attempts, callback_ch, exchange_log,
                   storeVars, restoreVars, apiVars, appVars, tmVars>>

\* MenuAction::RefreshToken (lines 285-291) and refresh_token (lines 549-572),
\* up to the await of the provider's answer.
Bg_RefreshToken ==
    /\ bg_pc = "select"
    /\ MenuOffers("RefreshToken")
    /\ IF keychain.refresh_token = Absent
       THEN /\ update_error("Token not found in keychain")
            /\ UNCHANGED <<bg_pc, bg_tok>>
       ELSE /\ bg_pc' = "refresh_token"
            /\ bg_tok' = keychain.refresh_token
            /\ UNCHANGED uiVars
    /\ last_action' = "RefreshToken"
    /\ UNCHANGED <<listenerVars, cancel_tx, pending_pkce, pending_state, attempts,
                   callback_ch, exchange_log, storeVars, restoreVars, apiVars, appVars, tmVars>>

\* refresh_token (lines 552-572), from the provider's answer on.  store_faults:
\* the keychain writes that may fail (1, 2, 3; 0 for none).
Bg_RefreshToken_Done(store_faults) ==
    /\ bg_pc = "refresh_token"
    /\ bg_pc' = "select"
    /\ bg_tok' = Absent
    /\ \/ /\ update_error("Token refresh failed")
          /\ UNCHANGED storeVars
       \/ \E with_refresh \in Responses, fail_at \in store_faults :
             LET stored == StoreTokens(keychain, TokenResponse("refresh", with_refresh),
                                       fail_at)
             IN  /\ keychain' = stored.kc
                 /\ IF stored.ok
                    THEN UNCHANGED uiVars    \* update_token_expiry
                    ELSE update_error("Failed to store token")
    /\ UNCHANGED <<listenerVars, cancel_tx, pending_pkce, pending_state, attempts,
                   callback_ch, exchange_log, last_action, restoreVars, apiVars, appVars, tmVars>>

\* MenuAction::RefreshPimRoles (lines 355-390), up to the await of the Graph
\* token (oauth_client.refresh_token with the stored refresh token).
Bg_RefreshPimRoles ==
    /\ bg_pc = "select"
    /\ MenuOffers("RefreshPimRoles")
    /\ IF keychain.refresh_token = Absent
       THEN UNCHANGED <<bg_pc, bg_tok>>
       ELSE /\ bg_pc' = "pim_tokens"
            /\ bg_tok' = keychain.refresh_token
    /\ last_action' = "RefreshPimRoles"
    /\ UNCHANGED <<listenerVars, cancel_tx, pending_pkce, pending_state, attempts,
                   callback_ch, exchange_log, uiVars, storeVars, restoreVars, apiVars, appVars, tmVars>>

\* Lines 383-444: the Graph token arrives or fails, the groups are fetched,
\* the Management token is requested with the same refresh token, the roles
\* are fetched.  No response is written to the keychain.
Bg_RefreshPimRoles_Done ==
    /\ bg_pc = "pim_tokens"
    /\ bg_pc' = "select"
    /\ bg_tok' = Absent
    /\ UNCHANGED <<listenerVars, cancel_tx, pending_pkce, pending_state, attempts,
                   callback_ch, exchange_log, last_action, uiVars, storeVars, restoreVars, apiVars, appVars, tmVars>>

(***************************************************************************)
(* main.rs: the listener thread's hand-over (lines 257-260) and the        *)
(* callback branch of run_background_tasks (lines 449-487)                 *)
(***************************************************************************)
\* tx.blocking_send(result): waits while the channel is full.
Thread_Send(l) ==
    /\ listeners[l].pc = "returned"
    /\ Len(callback_ch) < CallbackChannelCapacity
    /\ callback_ch' = Append(callback_ch, [from |-> l, result |-> listeners[l].result])
    /\ listeners' = [listeners EXCEPT ![l] = [NoListener EXCEPT !.pc = "done"]]
    /\ UNCHANGED <<cancel_ch, port, bg_pc, bg_tok, cancel_tx, pending_pkce, pending_state,
                   attempts, exchange_log, last_action, uiVars, storeVars, restoreVars, apiVars, appVars, tmVars>>

\* The record of one exchange_code call.
ExchangeCall(url, pkce, expected_state) ==
    [code |-> parse_callback_url(url).code, verifier |-> pkce,
     state |-> parse_callback_url(url).state, expected_state |-> expected_state]

\* failures: what may go wrong in handle_oauth_callback (CallbackFailures).
Bg_Callback(failures) ==
    /\ bg_pc = "select"
    /\ callback_ch # <<>>
    /\ callback_ch' = Tail(callback_ch)
    /\ cancel_tx' = 0
    /\ cancel_ch' = DropCancel(cancel_ch)
    /\ pending_pkce' = None
    /\ pending_state' = None
    /\ LET result == Head(callback_ch).result
       IN  CASE result.kind = "Success" ->
                  \E with_refresh \in Responses, failure \in failures :
                     LET out == handle_oauth_callback(result.url, pending_pkce,
                                    pending_state, keychain, with_refresh, failure)
                     IN  /\ exchange_log' =
                              IF out.exchanged
                              THEN Append(exchange_log,
                                          ExchangeCall(result.url, pending_pkce, pending_state))
                              ELSE exchange_log
                         /\ keychain' = out.kc
                         /\ IF out.ok THEN update_signed_in ELSE update_error(out.err)
             [] result.kind = "Cancelled" ->
                  UNCHANGED <<exchange_log, storeVars, uiVars>>
             [] result.kind = "Error" ->
                  /\ update_error("Authentication error")
                  /\ UNCHANGED <<exchange_log, storeVars>>
    /\ UNCHANGED <<listeners, port, bg_pc, bg_tok, attempts, last_action, restoreVars, apiVars, appVars, tmVars>>

(***************************************************************************)
(* main.rs: try_restore_session (lines 156-206) in its own task (122-128)  *)
(***************************************************************************)
\* A restore that gives up unless the expiry record is stored as well.
Restore_Start_NeedsExpiry ==
    /\ restore_pc = "start"
    /\ IF keychain.refresh_token = Absent \/ keychain.token_expiry = Absent
       THEN /\ restore_pc' = "done"
            /\ update_signed_out
            /\ UNCHANGED restore_tok
       ELSE /\ restore_pc' = "refresh_token"
            /\ restore_tok' = keychain.refresh_token
            /\ update_authenticating
    /\ UNCHANGED <<listenerVars, orchVars, storeVars, tmVars, apiVars, appVars>>

\* Lines 164-171: read the refresh token, show Authenticating, call the
\* provider.  Without a refresh token the task ends in update_signed_out.
Restore_Start ==
    /\ restore_pc = "start"
    /\ IF keychain.refresh_token = Absent
       THEN /\ restore_pc' = "done"
            /\ update_signed_out
            /\ UNCHANGED restore_tok
       ELSE /\ restore_pc' = "refresh_token"
            /\ restore_tok' = keychain.refresh_token
            /\ update_authenticating
    /\ UNCHANGED <<listenerVars, orchVars, storeVars, tmVars, apiVars, appVars>>

RestoreFailures == {"none", "store1", "store2", "store3", "profile", "organization",
                    "store_user_info"}

\* Lines 170-205, from the provider's answer on.
Restore_Done(failures) ==
    /\ restore_pc = "refresh_token"
    /\ restore_pc' = "done"
    /\ restore_tok' = Absent
    /\ \/ /\ update_signed_out
          /\ UNCHANGED storeVars
       \/ \E with_refresh \in Responses, failure \in failures :
             LET resp == TokenResponse("restore", with_refresh)
                 stored == StoreTokens(keychain, resp, FailAt(failure))
             IN  IF ~stored.ok \/ failure # "none"
                 THEN /\ keychain' = stored.kc
                      /\ update_signed_out
                 ELSE /\ keychain' = [stored.kc EXCEPT !.user_info = resp.access_token]
                      /\ update_signed_in
    /\ UNCHANGED <<listenerVars, orchVars, tmVars, apiVars, appVars>>

(***************************************************************************)
(* Spec: the program after main has spawned run_background_tasks and the   *)
(* restore task (main.rs:113-128).                                         *)
(***************************************************************************)
\* The requests the listeners of the whole-program model are offered: one per
\* outcome of handle_connection and parse_callback_url.
Get(path) == [read |-> TRUE, line |-> TRUE, parts |-> << <<"GET">>, path, <<"HTTP/1.1">> >>]

OrchRequests ==
    { Get(<<"/callback", "?", "code", "=", "c", "&", "state", "=", StateOf(n)>>) :
        n \in Attempts }
    \cup { Get(<<"/callback", "?", "error", "=", "denied", "&", "code", "=", "c", "&",
                 "state", "=", StateOf(1)>>),
           Get(<<"/callback", "?", "state", "=", "bogus">>) }

Init ==
    /\ ListenerIdle /\ OrchIdle /\ UiIdle /\ TmIdle /\ ApiIdle /\ AppIdle
    /\ restore_pc = "start"
    /\ restore_tok = Absent
    /\ keychain \in {EmptyKeychain, StoredSession}

Next ==
    \/ \E browser_opens \in BOOLEAN : Bg_SignIn(browser_opens)
    \/ Bg_SignOut({})
    \/ Bg_ClearData({})
    \/ Bg_CancelSignIn
    \/ Bg_RefreshToken
    \/ Bg_RefreshToken_Done({0})
    \/ Bg_RefreshPimRoles
    \/ Bg_RefreshPimRoles_Done
    \/ Bg_Callback({"none", "exchange", "profile"})
    \/ Restore_Start
    \/ Restore_Done({"none", "profile"})
    \/ \E l \in Attempts :
          \/ Listener_Bind(l, FALSE)
          \/ Listener_CheckCancel(l)
          \/ Listener_Accept(l, OrchRequests, FALSE)
          \/ Listener_Handle(l)
          \/ Thread_Send(l)

Spec == Init /\ [][Next]_vars

(***************************************************************************)
(* SpecSession: the orchestrator from the moment the listener of the first *)
(* sign-in attempt has handed over its result, with every failure of the   *)
(* provider, of Graph and of the keychain, next to the restore task.       *)
(***************************************************************************)
\* What the listener can have handed over.
SessionResults ==
    { Success(handle_connection(req).url) :
        req \in {r \in OrchRequests : handle_connection(r).some} }
    \cup {Cancelled, Error("Failed to start server")}

SessionInit ==
    /\ listeners = [l \in Attempts |-> IF l = 1 THEN [NoListener EXCEPT !.pc = "done"]
                                       ELSE NoListener]
    /\ cancel_ch = [l \in Attempts |-> "empty"]
    /\ port = 0
    /\ bg_pc = "select"
    /\ bg_tok = Absent
    /\ cancel_tx = 1
    /\ pending_pkce = VerifierOf(1)
    /\ pending_state = StateOf(1)
    /\ attempts = 1
    /\ callback_ch \in {<<[from |-> 1, result |-> r]>> : r \in SessionResults}
    /\ exchange_log = <<>>
    /\ last_action = "SignIn"
    /\ auth_state = "Authenticating"
    /\ error_message = None
    /\ keychain \in {EmptyKeychain, StoredSession}
    /\ restore_pc \in {"start", "done"}
    /\ restore_tok = Absent
    /\ TmIdle /\ ApiIdle /\ AppIdle

SessionNext ==
    \/ Bg_Callback(CallbackFailures)
    \/ Restore_Start
    \/ Restore_Done(RestoreFailures)
    \/ Bg_RefreshToken
    \/ Bg_RefreshToken_Done({0, 1, 2, 3})
    \/ Bg_RefreshPimRoles
    \/ Bg_RefreshPimRoles_Done
    \/ Bg_CancelSignIn
    \/ \E failing \in SUBSET Records : Bg_SignOut(failing)
    \/ \E failing \in SUBSET Records : Bg_ClearData(failing)

SpecSession == SessionInit /\ [][SessionNext]_vars

(***************************************************************************)
(* auth/token_manager.rs: TokenManager.  Its methods take &mut self or are *)
(* called by one task (api_pc); each start_auto_refresh spawns a task of   *)
(* its own (loops[k]).                                                     *)
(***************************************************************************)
\* A subtraction that wraps around instead of saturating.
saturating_sub_Wrapping(a, b) == IF a >= b THEN a - b ELSE 2147483647 - (b - a) + 1

\* u64::saturating_sub
saturating_sub(a, b) == IF a >= b THEN a - b ELSE 0

\* Ord::max
Max(a, b) == IF a >= b THEN a ELSE b

\* start_auto_refresh, lines 62 and 69: the period of the loop's interval, in
\* seconds.
RefreshPeriod(expires_in_seconds, refresh_before_seconds) ==
    LET refresh_in == saturating_sub(expires_in_seconds, refresh_before_seconds)
    IN  Max(refresh_in, 60)

\* i64 division, which truncates toward zero.
TruncDiv(a, b) == IF a >= 0 THEN a \div b ELSE -((-a) \div b)

\* i64 remainder of a non-negative number.
Rem(a, b) == a - b * TruncDiv(a, b)

\* Duration::num_minutes of a duration given in seconds.
num_minutes(seconds) == TruncDiv(seconds, 60)

\* format!("{}", n) of a non-negative integer: its decimal digits, as a
\* sequence of characters.
Digits == <<"0", "1", "2", "3", "4", "5", "6", "7", "8", "9">>
RECURSIVE Decimal(_)
Decimal(n) ==
    IF n < 10 THEN <<Digits[n + 1]>>
    ELSE Decimal(n \div 10) \o <<Digits[(n % 10) + 1]>>

\* A suffix that is always the plural.
Plural_Always(hours) == <<"s">>

\* if hours == 1 { "" } else { "s" }
Plural(hours) == IF hours = 1 THEN <<>> ELSE <<"s">>

\* format_duration (lines 175-191); the result is a sequence of characters.
format_duration(duration) ==
    LET total_minutes == num_minutes(duration)
        hours == TruncDiv(total_minutes, 60)
        mins == Rem(total_minutes, 60)
    IN  IF total_minutes < 1 THEN <<"<", " ", "1", " ", "m", "i", "n">>
        ELSE IF total_minutes < 60 THEN Decimal(total_minutes) \o <<" ", "m", "i", "n">>
        ELSE IF mins = 0
             THEN Decimal(hours) \o <<" ", "h", "o", "u", "r">> \o Plural(hours)
             ELSE Decimal(hours) \o <<"h", " ">> \o Decimal(mins) \o <<"m">>

(***************************************************************************)
(* auth/oauth.rs: what exchange_code, refresh_token and                    *)
(* get_management_token make of the token endpoint's response.             *)
(***************************************************************************)
\* StatusCode::is_success
is_success(status) == 200 <= status /\ status <= 299

\* An error text that quotes the response body after the status.
StatusText_WithBody(prefix, status, body) ==
    prefix \o <<"H", "T", "T", "P", " ">> \o Decimal(status) \o <<" ">> \o body

\* format!("HTTP {}", status.as_u16()), after get_management_token's prefix;
\* the body was read for the log only.
StatusText(prefix, status, body) ==
    prefix \o <<"H", "T", "T", "P", " ">> \o Decimal(status)

\* The AuthError variant and the text prefix of each of the three functions.
ErrorKind(fn) ==
    IF fn = "exchange_code" THEN "TokenExchangeFailed" ELSE "TokenRefreshFailed"
ErrorPrefix(fn) ==
    IF fn = "get_management_token" THEN <<"Management API token: ">> ELSE <<>>

\* The value fn returns for a response with this status and body: the error
\* for a non-2xx status, else the TokenResponse deserialized from the body.
TokenResult(fn, status, body) ==
    IF ~is_success(status)
    THEN [ok |-> FALSE, kind |-> ErrorKind(fn),
          text |-> StatusText(ErrorPrefix(fn), status, body)]
    ELSE [ok |-> TRUE, kind |-> None, text |-> body]

Loops == 1..MaxStarts

LoopAlive(k) == loops[k].pc \in {"select", "refreshing"}

\* tx.send(msg).await: the message is queued unless the receiver is gone.
SendCommand(ls, k, msg) ==
    IF ls[k].pc \in {"select", "refreshing"}
    THEN [ls EXCEPT ![k].rx = Append(@, msg)] ELSE ls

\* A stop that signals every live loop, whether or not its sender is held.
stop_auto_refresh_Broadcast ==
    /\ loops' = [k \in DOMAIN loops |->
                    IF loops[k].pc \in {"select", "refreshing"}
                    THEN [loops[k] EXCEPT !.rx = Append(@, "Stop"), !.stopped = TRUE]
                    ELSE loops[k]]
    /\ command_tx' = 0
    /\ is_running' = FALSE

\* stop_auto_refresh (lines 110-115): send Stop to the loop whose sender is
\* held, forget the sender, clear the flag.  It does not wait for the loop.
stop_auto_refresh ==
    /\ loops' = IF command_tx # 0 /\ LoopAlive(command_tx)
                THEN [SendCommand(loops, command_tx, "Stop") EXCEPT ![command_tx].stopped = TRUE]
                ELSE loops
    /\ command_tx' = 0
    /\ is_running' = FALSE

\* start_auto_refresh, line 52: self.stop_auto_refresh().await
Api_Start ==
    /\ api_pc = "idle"
    /\ starts < MaxStarts
    /\ stop_auto_refresh
    /\ api_pc' = "start_spawn"
    /\ UNCHANGED <<starts, consecutive_starts, on_refresh, refresh_now, listenerVars,
                   orchVars, uiVars, storeVars, restoreVars, apiVars, appVars>>

\* start_auto_refresh, lines 54-106: the new channel, is_running = true, and
\* the spawn of the loop, whose interval has its first tick ready at once.
Api_Start_Spawn ==
    /\ api_pc = "start_spawn"
    /\ LET k == starts + 1
       IN  /\ starts' = k
           /\ command_tx' = k
           /\ loops' = [loops EXCEPT ![k] = [NoLoop EXCEPT !.pc = "select", !.due = 1]]
    /\ is_running' = TRUE
    /\ consecutive_starts' = consecutive_starts + 1
    /\ api_pc' = "idle"
    /\ UNCHANGED <<on_refresh, refresh_now, listenerVars, orchVars, uiVars, storeVars,
                   restoreVars, apiVars, appVars>>

\* A call of stop_auto_refresh by the owner of the TokenManager.
Api_Stop ==
    /\ api_pc = "idle"
    /\ stop_auto_refresh
    /\ consecutive_starts' = 0
    /\ UNCHANGED <<api_pc, starts, on_refresh, refresh_now, listenerVars, orchVars, uiVars,
                   storeVars, restoreVars, apiVars, appVars>>

\* refresh_token_internal (lines 138-159), from the provider's answer on: ok
\* is whether the provider answered with tokens.
RefreshInternalDone(ok) ==
    IF ok
    THEN \E with_refresh \in Responses :
            keychain' = StoreTokens(keychain, TokenResponse("refresh", with_refresh), 0).kc
    ELSE UNCHANGED keychain

\* refresh_now (lines 118-128): a RefreshNow command for the loop (Err when
\* its receiver is gone), or, with no sender held, refresh_token_internal
\* inline, which returns at once without a stored refresh token.
Api_RefreshNow ==
    /\ api_pc = "idle"
    /\ refresh_now.calls < MaxCommands
    /\ IF command_tx # 0
       THEN /\ Len(loops[command_tx].rx) < MaxCommands
            /\ loops' = SendCommand(loops, command_tx, "RefreshNow")
            /\ refresh_now' = [refresh_now EXCEPT !.calls = @ + 1]
            /\ UNCHANGED api_pc
       ELSE /\ api_pc' = IF keychain.refresh_token = Absent THEN "idle" ELSE "refresh_inline"
            /\ refresh_now' = [calls |-> refresh_now.calls + 1,
                               attempts |-> refresh_now.attempts + 1]
            /\ UNCHANGED loops
    /\ UNCHANGED <<command_tx, is_running, starts, consecutive_starts, on_refresh,
                   listenerVars, orchVars, uiVars, storeVars, restoreVars, apiVars, appVars>>

Api_RefreshNow_Done ==
    /\ api_pc = "refresh_inline"
    /\ api_pc' = "idle"
    /\ \E ok \in BOOLEAN : RefreshInternalDone(ok)
    /\ UNCHANGED <<command_tx, is_running, loops, starts, consecutive_starts, on_refresh,
                   refresh_now, listenerVars, orchVars, uiVars, restoreVars, apiVars, appVars>>

\* A call of on_refresh without a result.
OnRefresh_OnlyOk(k, trigger, ok) ==
    IF ok THEN on_refresh' = [calls |-> on_refresh.calls + 1, by |-> k,
                              trigger |-> trigger, ok |-> ok]
    ELSE UNCHANGED on_refresh

\* (on_refresh)(result) (lines 87, 94)
OnRefresh(k, trigger, ok) ==
    on_refresh' = [calls |-> on_refresh.calls + 1, by |-> k, trigger |-> trigger, ok |-> ok]

\* The loop calls refresh_token_internal (lines 86, 93): without a stored
\* refresh token it returns at once and on_refresh gets the error; otherwise
\* the loop is suspended in the provider call.
BeginRefresh(ls, k, trigger) ==
    IF keychain.refresh_token = Absent
    THEN /\ loops' = ls
         /\ OnRefresh(k, trigger, FALSE)
    ELSE /\ loops' = [ls EXCEPT ![k].pc = "refreshing", ![k].tok = keychain.refresh_token,
                                ![k].trigger = trigger]
         /\ UNCHANGED on_refresh

\* The loop leaves `loop` and runs line 105: *is_running.lock().await = false
LoopExit(ls, k) == [ls EXCEPT ![k] = [NoLoop EXCEPT !.pc = "exited", !.first_tick = FALSE]]

\* A tick test that never skips.
SkipsTick_Never(l) == FALSE

\* if first_tick (line 76)
SkipsTick(l) == l.first_tick

\* A full period of the loop's interval elapses: one more tick is ready.
Interval_Elapse(k) ==
    /\ LoopAlive(k)
    /\ loops[k].intervals < MaxIntervals
    /\ loops' = [loops EXCEPT ![k].intervals = @ + 1, ![k].due = @ + 1]
    /\ UNCHANGED <<api_pc, command_tx, is_running, starts, consecutive_starts, on_refresh,
                   refresh_now, listenerVars, orchVars, uiVars, storeVars, restoreVars, apiVars, appVars>>

\* select!, the interval.tick() branch (lines 74-88)
Loop_Tick(k) ==
    /\ loops[k].pc = "select"
    /\ loops[k].due > 0
    /\ LET ticked == [loops EXCEPT ![k].due = @ - 1]
       IN  IF SkipsTick(loops[k])
           THEN /\ loops' = [ticked EXCEPT ![k].first_tick = FALSE]
                /\ UNCHANGED <<is_running, on_refresh>>
           ELSE IF ~is_running
           THEN /\ loops' = LoopExit(ticked, k)
                /\ is_running' = FALSE
                /\ UNCHANGED on_refresh
           ELSE /\ BeginRefresh(ticked, k, "tick")
                /\ UNCHANGED is_running
    /\ UNCHANGED <<api_pc, command_tx, starts, consecutive_starts, refresh_now, listenerVars,
                   orchVars, uiVars, storeVars, restoreVars, apiVars, appVars>>

\* select!, the rx.recv() branch (lines 89-101)
Loop_Recv(k) ==
    /\ loops[k].pc = "select"
    /\ loops[k].rx # <<>>
    /\ LET received == [loops EXCEPT ![k].rx = Tail(@)]
       IN  IF Head(loops[k].rx) = "Stop"
           THEN /\ loops' = LoopExit(received, k)
                /\ is_running' = FALSE
                /\ UNCHANGED <<on_refresh, refresh_now>>
           ELSE /\ BeginRefresh(received, k, "command")
                /\ refresh_now' = [refresh_now EXCEPT !.attempts = @ + 1]
                /\ UNCHANGED is_running
    /\ UNCHANGED <<api_pc, command_tx, starts, consecutive_starts, listenerVars, orchVars,
                   uiVars, storeVars, restoreVars, apiVars, appVars>>

\* The provider answers the loop's refresh; the tokens are stored and
\* on_refresh is called with the result (lines 86-87, 93-94).
Loop_RefreshDone(k) ==
    /\ loops[k].pc = "refreshing"
    /\ loops' = [loops EXCEPT ![k].pc = "select", ![k].tok = Absent, ![k].trigger = None]
    /\ \E ok \in BOOLEAN :
          /\ RefreshInternalDone(ok)
          /\ OnRefresh(k, loops[k].trigger, ok)
    /\ UNCHANGED <<api_pc, command_tx, is_running, starts, consecutive_starts, refresh_now,
                   listenerVars, orchVars, uiVars, restoreVars, apiVars, appVars>>

\* SpecTM: a TokenManager after TokenManager::new, its owner calling
\* start_auto_refresh, stop_auto_refresh and refresh_now in any order.
TmInit ==
    /\ TmIdle /\ ListenerIdle /\ OrchIdle /\ UiIdle /\ RestoreIdle /\ ApiIdle /\ AppIdle
    /\ keychain \in {EmptyKeychain, StoredSession}

TmNext ==
    \/ Api_Start
    \/ Api_Start_Spawn
    \/ Api_Stop
    \/ Api_RefreshNow
    \/ Api_RefreshNow_Done
    \/ \E k \in Loops :
          \/ Interval_Elapse(k)
          \/ Loop_Tick(k)
          \/ Loop_Recv(k)
          \/ Loop_RefreshDone(k)

SpecTM == TmInit /\ [][TmNext]_vars

\* SpecLoop: one scheduler loop, from the return of the start_auto_refresh
\* that spawned it; its owner calls refresh_now and stop_auto_refresh.
LoopInit ==
    /\ api_pc = "idle"
    /\ command_tx = 1
    /\ is_running = TRUE
    /\ loops = [k \in Loops |-> IF k = 1 THEN [NoLoop EXCEPT !.pc = "select", !.due = 1]
                                 ELSE NoLoop]
    /\ starts = 1
    /\ consecutive_starts = 1
    /\ on_refresh = [calls |-> 0, by |-> 0, trigger |-> None, ok |-> FALSE]
    /\ refresh_now = [calls |-> 0, attempts |-> 0]
    /\ ListenerIdle /\ OrchIdle /\ UiIdle /\ RestoreIdle /\ ApiIdle /\ AppIdle
    /\ keychain \in {EmptyKeychain, StoredSession}

LoopStep ==
    \/ Loop_Tick(1)
    \/ Loop_Recv(1)
    \/ Loop_RefreshDone(1)

LoopNext ==
    \/ LoopStep
    \/ Interval_Elapse(1)
    \/ Api_Stop
    \/ Api_RefreshNow
    \/ Api_RefreshNow_Done

SpecLoop == LoopInit /\ [][LoopNext]_vars

\* SpecStop: a TokenManager that was never started, or one whose loop was
\* started once; every call of stop_auto_refresh is recorded in `call` with
\* the sender it found (0 for None) and a mark that alternates per call.
Stop_stop_auto_refresh ==
    /\ api_pc = "idle"
    /\ stop_auto_refresh
    /\ consecutive_starts' = 0
    /\ LET mark == IF call.fn = "stop_auto_refresh" THEN 1 - call.arg[2] ELSE 0
       IN  call' = [fn |-> "stop_auto_refresh", arg |-> <<command_tx, mark>>,
                    done |-> TRUE, result |-> <<>>]
    /\ UNCHANGED <<api_pc, starts, on_refresh, refresh_now, listenerVars, orchVars, uiVars,
                   storeVars, restoreVars, last_stored, appVars>>

StopInit ==
    \/ LoopInit
    \/ /\ TmIdle /\ ListenerIdle /\ OrchIdle /\ UiIdle /\ RestoreIdle /\ ApiIdle /\ AppIdle
       /\ keychain \in {EmptyKeychain, StoredSession}

StopNext ==
    \/ LoopStep
    \/ Interval_Elapse(1)
    \/ Stop_stop_auto_refresh
    \/ Api_RefreshNow
    \/ Api_RefreshNow_Done

SpecStop == StopInit /\ [][StopNext]_vars

(***************************************************************************)
(* SpecListener: one call of start_callback_server, with a caller that may *)
(* cancel it and clients that send it any request.                         *)
(***************************************************************************)
ListenerInit ==
    /\ listeners = [l \in Attempts |-> IF l = 1 THEN [NoListener EXCEPT !.pc = "bind"]
                                       ELSE NoListener]
    /\ cancel_ch = [l \in Attempts |-> "empty"]
    /\ port = 0
    /\ OrchIdle /\ UiIdle /\ RestoreIdle /\ TmIdle /\ ApiIdle /\ AppIdle
    /\ keychain = EmptyKeychain

ListenerStep ==
    \/ Listener_Bind(1, TRUE)
    \/ Listener_CheckCancel(1)
    \/ Listener_Accept(1, Requests, TRUE)
    \/ Listener_Handle(1)

ListenerNext ==
    \/ ListenerStep
    \/ Caller_Cancel(1)
    \/ Caller_Drop(1)

SpecListener == ListenerInit /\ [][ListenerNext]_vars

\* The listener runs on an OS thread of its own (main.rs:257): it keeps
\* taking steps.
SpecListenerFair == SpecListener /\ WF_vars(ListenerStep)

(***************************************************************************)
(* SpecRebind: start_callback_server called once per sign-in attempt, each *)
(* call on a thread of its own, at any time with respect to the others.    *)
(***************************************************************************)
RebindInit ==
    /\ listeners = [l \in Attempts |-> [NoListener EXCEPT !.pc = "bind"]]
    /\ cancel_ch = [l \in Attempts |-> "empty"]
    /\ port = 0
    /\ OrchIdle /\ UiIdle /\ RestoreIdle /\ TmIdle /\ ApiIdle /\ AppIdle
    /\ keychain = EmptyKeychain

RebindNext ==
    \E l \in Attempts :
        \/ Listener_Bind(l, TRUE)
        \/ Listener_CheckCancel(l)
        \/ Listener_Accept(l, OrchRequests, TRUE)
        \/ Listener_Handle(l)
        \/ Caller_Cancel(l)
        \/ Caller_Drop(l)

SpecRebind == RebindInit /\ [][RebindNext]_vars

(***************************************************************************)
(* SpecRestore: the restore task alone, started with any subset of the     *)
(* four records left in the keychain, each by the sign-in of an earlier    *)
(* run or by a refresh that followed it.                                   *)
(***************************************************************************)
RestoreInit ==
    /\ keychain \in [Records -> {Absent, "previous", "refresh"}]
    /\ restore_pc = "start"
    /\ restore_tok = Absent
    /\ ListenerIdle /\ OrchIdle /\ UiIdle /\ TmIdle /\ ApiIdle /\ AppIdle

RestoreNext ==
    \/ Restore_Start
    \/ Restore_Done(RestoreFailures)

SpecRestore == RestoreInit /\ [][RestoreNext]_vars

(***************************************************************************)
(* SpecFn: one call of a function that touches no state of the program,    *)
(* with its argument drawn from the inputs below.                          *)
(***************************************************************************)
\* A call of fn with arg that has not returned.
Call(fn, arg) == [fn |-> fn, arg |-> arg, done |-> FALSE, result |-> <<>>]

\* The lifetimes and margins start_auto_refresh is called with, in seconds.
Seconds == (0..MaxSeconds) \cup {59, 60, 61, 300, 3300, 3600}

\* The durations that are formatted, in seconds: negative ones, and whole
\* and broken minutes.
Durations == { 60 * m + sec : m \in (-1)..MaxMinutes, sec \in {0, 30} }

\* Names and values of the parameters a callback URL is built from, as the
\* identity provider means them (before they are encoded for the URL).
CallbackPairs ==
    { [name |-> <<"code">>, value |-> <<"abc123">>],
      [name |-> <<"state">>, value |-> <<"xyz789">>],
      [name |-> <<"error">>, value |-> <<"access_denied">>],
      [name |-> <<"error_description">>, value |-> <<"User", " ", "cancelled">>],
      [name |-> <<"other">>, value |-> <<"x">>] }

\* The lists of at most n parameters.
RECURSIVE PairLists(_)
PairLists(n) ==
    IF n = 0 THEN { <<>> }
    ELSE LET shorter == PairLists(n - 1)
         IN  shorter \cup { Append(l, pr) : l \in shorter, pr \in CallbackPairs }

\* The encoding of a name or value for a query: a space is sent as "+" (plus)
\* or as "%20".
RECURSIVE Encode(_, _)
Encode(v, plus) ==
    IF v = <<>> THEN <<>>
    ELSE (IF v[1] # " " THEN <<v[1]>> ELSE IF plus THEN <<"+">> ELSE <<"%", "2", "0">>)
         \o Encode(Tail(v), plus)

RECURSIVE QueryOf(_, _)
QueryOf(pairs, plus) ==
    IF pairs = <<>> THEN <<>>
    ELSE Encode(pairs[1].name, plus) \o <<"=">> \o Encode(pairs[1].value, plus)
         \o (IF Len(pairs) > 1 THEN <<"&">> \o QueryOf(Tail(pairs), plus) ELSE <<>>)

\* The URL string of the parameters, absolute (base) or without scheme and host.
UrlOf(base, pairs, plus) ==
    (IF base THEN <<Origin>> ELSE <<>>) \o <<"/callback">>
    \o (IF pairs = <<>> THEN <<>> ELSE <<"?">> \o QueryOf(pairs, plus))

CallbackUrls ==
    { [url |-> UrlOf(base, pairs, plus), base |-> base, pairs |-> pairs] :
        base \in BOOLEAN, plus \in BOOLEAN, pairs \in PairLists(MaxCallbackParams) }

\* The functions that post to the token endpoint, the statuses it answers
\* with and the bodies of its answers.
TokenFunctions == {"exchange_code", "refresh_token", "get_management_token"}
Statuses == {200, 302, 400, 401, 500, 503}
Bodies == { <<"invalid_grant">>, <<"AADSTS70008", " ", "trace_id">>, <<>> }

\* One run of a function on each of two responses.
TokenCalls ==
    { Call(fn, [status |-> <<s1, s2>>, body |-> <<b1, b2>>]) :
        fn \in TokenFunctions, s1 \in Statuses, s2 \in Statuses, b1 \in Bodies, b2 \in Bodies }

FnCalls ==
    { Call("RefreshPeriod", <<e, m>>) : e \in Seconds, m \in Seconds }
    \cup TokenCalls
    \cup { Call("parse_callback_url", u) : u \in CallbackUrls }
    \cup { Call("format_duration", d) : d \in Durations }

FnInit ==
    /\ call \in FnCalls
    /\ last_stored = EmptyKeychain
    /\ keychain = EmptyKeychain
    /\ ListenerIdle /\ OrchIdle /\ UiIdle /\ RestoreIdle /\ TmIdle /\ AppIdle

\* The call returns result.
Returns(result) ==
    /\ ~call.done
    /\ call' = [call EXCEPT !.done = TRUE, !.result = result]
    /\ UNCHANGED <<listenerVars, orchVars, uiVars, storeVars, restoreVars, tmVars,
                   last_stored, appVars>>

Fn_RefreshPeriod ==
    /\ call.fn = "RefreshPeriod"
    /\ Returns(RefreshPeriod(call.arg[1], call.arg[2]))

Fn_format_duration ==
    /\ call.fn = "format_duration"
    /\ Returns(format_duration(call.arg))

Fn_parse_callback_url ==
    /\ call.fn = "parse_callback_url"
    /\ Returns(parse_callback_url(call.arg.url))

\* Both runs return.
Fn_TokenRequest ==
    /\ call.fn \in TokenFunctions
    /\ Returns(<<TokenResult(call.fn, call.arg.status[1], call.arg.body[1]),
                 TokenResult(call.fn, call.arg.status[2], call.arg.body[2])>>)

FnNext ==
    \/ Fn_RefreshPeriod
    \/ Fn_TokenRequest
    \/ Fn_parse_callback_url
    \/ Fn_format_duration

SpecFn == FnInit /\ [][FnNext]_vars

(***************************************************************************)
(* SpecStore: a caller of the keychain module's functions, one call after  *)
(* the other, the Keychain failing any request.                            *)
(***************************************************************************)
ValueNames == <<"t1", "t2", "t3", "t4">>
Values == { ValueNames[i] : i \in 1..MaxValues }

Deleted == "Deleted"

\* The caller touches nothing else of the program.
ApiFrame == UNCHANGED <<listenerVars, orchVars, uiVars, restoreVars, tmVars, appVars>>

\* A call that has returned.
Returned(fn, arg, result) == [fn |-> fn, arg |-> arg, done |-> TRUE, result |-> result]

Store_store(r, value, fails) ==
    LET out == store_value(keychain, r, value, fails)
    IN  /\ keychain' = out.kc
        /\ call' = Returned("store", [record |-> r, value |-> value, fails |-> fails],
                            [ok |-> out.ok, err |-> out.err])
        /\ last_stored' = IF out.ok THEN [last_stored EXCEPT ![r] = value] ELSE last_stored
        /\ ApiFrame

Store_get(r, fails) ==
    LET out == get_value(keychain, r, fails)
    IN  /\ call' = Returned("get", [record |-> r, fails |-> fails], out)
        /\ UNCHANGED <<keychain, last_stored>>
        /\ ApiFrame

Store_delete_all(failing) ==
    LET result == delete_all_returns(keychain, failing)
    IN  /\ keychain' = delete_all(keychain, failing)
        /\ call' = Returned("delete_all", [failing |-> failing],
                            [ret |-> result, error |-> delete_all_error(keychain, failing)])
        /\ last_stored' = [r \in Records |-> IF result = "Ok" THEN Deleted ELSE Absent]
        /\ ApiFrame

Store_DeleteAll == \E failing \in SUBSET Records : Store_delete_all(failing)

StoreInit ==
    /\ keychain \in {EmptyKeychain, StoredSession,
                      [StoredSession EXCEPT !.user_info = InvalidUtf8]}
    /\ ApiIdle /\ AppIdle
    /\ ListenerIdle /\ OrchIdle /\ UiIdle /\ RestoreIdle /\ TmIdle

StoreNext ==
    \/ \E r \in Records, value \in Values, fails \in BOOLEAN : Store_store(r, value, fails)
    \/ \E r \in Records, fails \in BOOLEAN : Store_get(r, fails)
    \/ Store_DeleteAll

SpecStore == StoreInit /\ [][StoreNext]_vars

(***************************************************************************)
(* SpecWrites: the sequences that write the credential records, each as    *)
(* one call with every failure of the Keychain, the provider and Graph.    *)
(***************************************************************************)
Writes_refresh_token_internal(get_fails, provider_ok, with_refresh, fail_at) ==
    LET out == refresh_token_internal(keychain, get_fails, provider_ok, with_refresh, fail_at)
    IN  /\ keychain' = out.kc
        /\ call' = Returned("refresh_token_internal",
                            [get_fails |-> get_fails, provider_ok |-> provider_ok,
                             with_refresh |-> with_refresh, fail_at |-> fail_at],
                            [ok |-> out.ok, err |-> out.err, contacted |-> out.contacted])
        /\ UNCHANGED last_stored
        /\ ApiFrame

Writes_Refresh ==
    \E get_fails \in BOOLEAN, provider_ok \in BOOLEAN, with_refresh \in BOOLEAN,
       fail_at \in 0..3 :
        Writes_refresh_token_internal(get_fails, provider_ok, with_refresh, fail_at)

\* handle_oauth_callback for the callback of the pending sign-in attempt.
Writes_handle_oauth_callback(with_refresh, failure) ==
    LET url == CallbackUrl(<<"/callback", "?", "code", "=", "c", "&", "state", "=", StateOf(1)>>)
        out == handle_oauth_callback(url, VerifierOf(1), StateOf(1), keychain, with_refresh,
                                     failure)
    IN  /\ keychain' = out.kc
        /\ call' = Returned("handle_oauth_callback",
                            [with_refresh |-> with_refresh, failure |-> failure],
                            [ok |-> out.ok, err |-> out.err])
        /\ UNCHANGED last_stored
        /\ ApiFrame

Writes_Callback ==
    \E with_refresh \in BOOLEAN, failure \in CallbackFailures :
        Writes_handle_oauth_callback(with_refresh, failure)

Writes_RefreshPimRoles(user_known, graph_ok, mgmt_ok, with_refresh) ==
    LET out == RefreshPimRoles(keychain, user_known, graph_ok, mgmt_ok, with_refresh)
    IN  /\ keychain' = out.kc
        /\ call' = Returned("RefreshPimRoles",
                            [user_known |-> user_known, graph_ok |-> graph_ok,
                             mgmt_ok |-> mgmt_ok, with_refresh |-> with_refresh],
                            [outcome |-> out.outcome, sent |-> out.sent,
                             issued |-> out.issued])
        /\ UNCHANGED last_stored
        /\ ApiFrame

Writes_Pim ==
    \E user_known \in BOOLEAN, graph_ok \in BOOLEAN, mgmt_ok \in BOOLEAN,
       with_refresh \in BOOLEAN :
        Writes_RefreshPimRoles(user_known, graph_ok, mgmt_ok, with_refresh)

WritesInit ==
    /\ keychain \in {EmptyKeychain, StoredSession}
    /\ ApiIdle /\ AppIdle
    /\ ListenerIdle /\ OrchIdle /\ UiIdle /\ RestoreIdle /\ TmIdle

WritesNext ==
    \/ Writes_Refresh
    \/ Writes_Callback
    \/ Writes_Pim
    \/ Store_DeleteAll

SpecWrites == WritesInit /\ [][WritesNext]_vars

(***************************************************************************)
(* pim/models.rs: PimSettings favorites (lines 194-206)                    *)
(***************************************************************************)
KeyNames == <<"k1", "k2", "k3", "k4", "k5", "k6", "k7">>
RoleKeys == { KeyNames[i] : i \in 1..MaxKeys }

\* self.favorite_role_keys.contains(&role_key.to_string())
is_favorite(favorite_role_keys, role_key) ==
    \E i \in 1..Len(favorite_role_keys) : favorite_role_keys[i] = role_key

\* A toggle that pushes the key whether or not it is a favorite.
toggle_favorite_PushAlways(favorite_role_keys, role_key) ==
    Append(favorite_role_keys, role_key)

\* retain(|k| k != role_key) when the key is a favorite, else push.
toggle_favorite(favorite_role_keys, role_key) ==
    IF is_favorite(favorite_role_keys, role_key)
    THEN SelectSeq(favorite_role_keys, LAMBDA k : k # role_key)
    ELSE Append(favorite_role_keys, role_key)

(***************************************************************************)
(* SpecPimState: the shared PimState (menubar/state.rs:101-123), written   *)
(* by the ToggleFavorite handler on the background task (main.rs:340-354)  *)
(* and by the closures that menubar/updates.rs dispatches to the main      *)
(* thread.  Each get_pim_state, set_pim_state and set_pim_* takes the      *)
(* Mutex for the length of that one call.                                  *)
(***************************************************************************)
PimFrame == UNCHANGED <<listenerVars, orchVars, uiVars, storeVars, restoreVars, tmVars,
                        apiVars, user_info, token_expiry, pim_cache, utc_now>>

\* main.rs:343: let mut pim_state = state.get_pim_state()
Toggle_Get(role_key) ==
    /\ toggle = NoToggle
    /\ toggle' = [pc |-> "toggle", role_key |-> role_key, pim_state |-> pim_state]
    /\ UNCHANGED <<pim_state, main_pc>>
    /\ PimFrame

\* main.rs:344-345: pim_state.toggle_favorite(&role_key) on the copy, then
\* state.set_pim_state(pim_state.clone())
Toggle_Set ==
    /\ toggle.pc = "toggle"
    /\ pim_state' = [toggle.pim_state EXCEPT
                        !.favorite_role_keys = toggle_favorite(@, toggle.role_key)]
    /\ toggle' = NoToggle
    /\ UNCHANGED main_pc
    /\ PimFrame

\* update_pim_eligible_roles (updates.rs:115-126): set_pim_eligible_roles
\* changes the roles and the status under one lock (state.rs:111-117).
Main_set_pim_eligible_roles(roles) ==
    /\ main_pc = NoClosure
    /\ pim_state' = [pim_state EXCEPT !.eligible_roles = roles, !.api_status = "Available"]
    /\ UNCHANGED <<main_pc, toggle>>
    /\ PimFrame

\* update_pim_active_assignments (updates.rs:128-139, state.rs:119-123)
Main_set_pim_active_assignments(assignments) ==
    /\ main_pc = NoClosure
    /\ pim_state' = [pim_state EXCEPT !.active_assignments = assignments]
    /\ UNCHANGED <<main_pc, toggle>>
    /\ PimFrame

\* update_pim_loading and update_pim_error (updates.rs:162-192): the closure
\* reads the whole PimState ...
Main_update_pim_status_Get(api_status) ==
    /\ main_pc = NoClosure
    /\ main_pc' = [fn |-> "update_pim_status", step |-> 1, arg |-> <<api_status>>,
                   pim_state |-> pim_state]
    /\ UNCHANGED <<pim_state, toggle>>
    /\ PimFrame

\* ... and writes its copy back with the new status.
Main_update_pim_status_Set ==
    /\ main_pc.fn = "update_pim_status"
    /\ pim_state' = [main_pc.pim_state EXCEPT !.api_status = main_pc.arg[1]]
    /\ main_pc' = NoClosure
    /\ UNCHANGED toggle
    /\ PimFrame

PimStateInit ==
    /\ ListenerIdle /\ OrchIdle /\ UiIdle /\ RestoreIdle /\ TmIdle /\ ApiIdle /\ AppIdle
    /\ keychain = EmptyKeychain

PimStateNext ==
    \/ \E role_key \in {KeyNames[1], KeyNames[2]} : Toggle_Get(role_key)
    \/ Toggle_Set
    \/ \E roles \in {"roles1", "roles2"} : Main_set_pim_eligible_roles(roles)
    \/ Main_set_pim_active_assignments("assignments1")
    \/ \E api_status \in {"Loading", "Unavailable"} : Main_update_pim_status_Get(api_status)
    \/ Main_update_pim_status_Set

SpecPimState == PimStateInit /\ [][PimStateNext]_vars

(***************************************************************************)
(* SpecAppState: the closures of menubar/updates.rs (lines 15-84) as the   *)
(* main thread runs them, one AppState setter at a time.  Each setter      *)
(* locks the Mutex of its own field (state.rs:53-81), so every state       *)
(* between two setters is visible to the other threads.                    *)
(***************************************************************************)
AppFrame == UNCHANGED <<listenerVars, orchVars, storeVars, restoreVars, tmVars, apiVars,
                        pim_state, toggle, pim_cache, utc_now>>

Closure(fn, step, arg) == [fn |-> fn, step |-> step, arg |-> arg, pim_state |-> NoPimState]

\* update_signed_in, line 47: state.set_auth_state(AuthState::SignedIn)
Main_update_signed_in(info, expires_at) ==
    /\ main_pc = NoClosure
    /\ update_signed_in
    /\ main_pc' = Closure("update_signed_in", 1, <<info, expires_at>>)
    /\ UNCHANGED <<user_info, token_expiry>>
    /\ AppFrame

\* update_signed_out, line 19: state.set_auth_state(AuthState::SignedOut)
Main_update_signed_out ==
    /\ main_pc = NoClosure
    /\ update_signed_out
    /\ main_pc' = Closure("update_signed_out", 1, <<None, None>>)
    /\ UNCHANGED <<user_info, token_expiry>>
    /\ AppFrame

\* Lines 20 and 48: state.set_user_info(..)
Main_set_user_info ==
    /\ main_pc.fn \in {"update_signed_in", "update_signed_out"}
    /\ main_pc.step = 1
    /\ user_info' = main_pc.arg[1]
    /\ main_pc' = [main_pc EXCEPT !.step = 2]
    /\ UNCHANGED <<uiVars, token_expiry>>
    /\ AppFrame

\* Lines 21 and 49: state.set_token_expiry(..), the closure's last setter.
Main_set_token_expiry ==
    /\ main_pc.fn \in {"update_signed_in", "update_signed_out"}
    /\ main_pc.step = 2
    /\ token_expiry' = main_pc.arg[2]
    /\ main_pc' = NoClosure
    /\ UNCHANGED <<uiVars, user_info>>
    /\ AppFrame

\* update_authenticating (lines 30-40) and update_error (lines 58-70) set
\* the auth state only.
Main_update_authenticating ==
    /\ main_pc = NoClosure
    /\ update_authenticating
    /\ UNCHANGED <<main_pc, user_info, token_expiry>>
    /\ AppFrame

Main_update_error(message) ==
    /\ main_pc = NoClosure
    /\ update_error(message)
    /\ UNCHANGED <<main_pc, user_info, token_expiry>>
    /\ AppFrame

\* update_token_expiry (lines 73-84) sets the expiry only.
Main_update_token_expiry(expires_at) ==
    /\ main_pc = NoClosure
    /\ token_expiry' = expires_at
    /\ UNCHANGED <<main_pc, uiVars, user_info>>
    /\ AppFrame

AppStateInit ==
    /\ ListenerIdle /\ OrchIdle /\ UiIdle /\ RestoreIdle /\ TmIdle /\ ApiIdle /\ AppIdle
    /\ keychain = EmptyKeychain

AppStateNext ==
    \/ \E info \in {"user1", "user2"}, expires_at \in {"expiry1", "expiry2", "expiry3"} :
          Main_update_signed_in(info, expires_at)
    \/ Main_update_signed_out
    \/ Main_set_user_info
    \/ Main_set_token_expiry
    \/ Main_update_authenticating
    \/ \E message \in {"Token refresh failed", "Authentication error"} :
          Main_update_error(message)
    \/ \E expires_at \in {"expiry1", "expiry2", "expiry3"} :
          Main_update_token_expiry(expires_at)

SpecAppState == AppStateInit /\ [][AppStateNext]_vars

(***************************************************************************)
(* pim/cache.rs: PimCache (lines 17-71)                                    *)
(***************************************************************************)
\* A cache entry that is still valid when exactly the TTL has passed.
is_valid_Inclusive(cached_at, now) == now - cached_at <= CACHE_TTL_HOURS * TicksPerHour

\* PimCache::is_valid with Utc::now() = now (lines 60-62), strict comparison.
is_valid(cached_at, now) == now - cached_at < CACHE_TTL_HOURS * TicksPerHour

\* PimCache::get_eligible_roles (lines 31-39): Some(&data) as data, None as None.
get_eligible_roles(cache, now) ==
    IF cache.set /\ is_valid(cache.cached_at, now) THEN cache.data ELSE None

\* PimCache::needs_refresh (lines 65-70)
needs_refresh(cache, now) ==
    IF cache.set THEN ~is_valid(cache.cached_at, now) ELSE TRUE

CacheFrame == UNCHANGED <<listenerVars, orchVars, uiVars, storeVars, restoreVars, tmVars,
                          last_stored, user_info, token_expiry, main_pc, pim_state, toggle>>

\* PimCache::set_eligible_roles (lines 42-47); call keeps the last call that
\* changed the cache and the clock reading it was made at.
Cache_set_eligible_roles(roles) ==
    /\ pim_cache' = [set |-> TRUE, data |-> roles, cached_at |-> utc_now]
    /\ call' = Returned("set_eligible_roles", [roles |-> roles, at |-> utc_now], <<>>)
    /\ UNCHANGED utc_now
    /\ CacheFrame

\* PimCache::invalidate (lines 55-57)
Cache_invalidate ==
    /\ pim_cache' = NoCache
    /\ call' = Returned("invalidate", [at |-> utc_now], <<>>)
    /\ UNCHANGED utc_now
    /\ CacheFrame

\* Time passes: the next Utc::now() reads one tick later.
Cache_Tick ==
    /\ utc_now < MaxTicks
    /\ utc_now' = utc_now + 1
    /\ UNCHANGED <<pim_cache, call>>
    /\ CacheFrame

\* PimCache::new (lines 26-28)
CacheInit ==
    /\ ListenerIdle /\ OrchIdle /\ UiIdle /\ RestoreIdle /\ TmIdle /\ ApiIdle /\ AppIdle
    /\ keychain = EmptyKeychain

CacheNext ==
    \/ \E roles \in {"roles1", "roles2", "roles3"} : Cache_set_eligible_roles(roles)
    \/ Cache_invalidate
    \/ Cache_Tick

SpecCache == CacheInit /\ [][CacheNext]_vars

(***************************************************************************)
(* SpecFavorites: PimSettings::toggle_favorite (pim/models.rs:199-206)     *)
(* called any number of times on a favorites list without duplicates.      *)
(***************************************************************************)
NoDuplicates(favorite_role_keys) ==
    \A i, j \in 1..Len(favorite_role_keys) :
        favorite_role_keys[i] = favorite_role_keys[j] => i = j

FavoriteLists ==
    { keys \in UNION { [1..n -> RoleKeys] : n \in 0..MaxKeys } : NoDuplicates(keys) }

Settings_toggle_favorite(role_key) ==
    /\ pim_state' = [pim_state EXCEPT
                        !.favorite_role_keys = toggle_favorite(@, role_key)]
    /\ call' = Returned("toggle_favorite", [role_key |-> role_key], <<>>)
    /\ UNCHANGED <<listenerVars, orchVars, uiVars, storeVars, restoreVars, tmVars,
                   last_stored, user_info, token_expiry, main_pc, toggle, pim_cache,
                   utc_now>>

FavoritesInit ==
    /\ ListenerIdle /\ OrchIdle /\ UiIdle /\ RestoreIdle /\ TmIdle /\ ApiIdle
    /\ keychain = EmptyKeychain
    /\ user_info = None
    /\ token_expiry = None
    /\ main_pc = NoClosure
    /\ toggle = NoToggle
    /\ pim_cache = NoCache
    /\ utc_now = 0
    /\ \E keys \in FavoriteLists :
          pim_state = [NoPimState EXCEPT !.favorite_role_keys = keys]

FavoritesNext == \E role_key \in RoleKeys : Settings_toggle_favorite(role_key)

SpecFavorites == FavoritesInit /\ [][FavoritesNext]_vars

(***************************************************************************)
(* Properties.                                                             *)
(***************************************************************************)
\* The step in which run_background_tasks takes a CallbackResult from the
\* channel, and the result it takes.
CallbackTaken == callback_ch # <<>> /\ Len(callback_ch') < Len(callback_ch)
TakenResult == Head(callback_ch).result
TakenFrom == Head(callback_ch).from

\* The callback URL carries the state of the sign-in attempt that is pending.
CarriesPendingState(url) ==
    LET params == QueryPairs(url)
    IN  /\ pending_state # None
        /\ pending_state = StateOf(attempts)
        /\ HasParam(params, <<"state">>)
        /\ GetParam(params, <<"state">>) = <<pending_state>>

TakenCarriesPendingState ==
    TakenResult.kind = "Success" /\ CarriesPendingState(TakenResult.url)

\* C1: exchange_code is called only in the handling of a callback whose state
\* parameter equals the pending state of the currently pending sign-in
\* attempt; the handling of a callback with another state, or with no attempt
\* pending, calls no exchange_code and writes no credential.
C1_ExchangeOnlyForPendingState ==
    [][ /\ exchange_log' # exchange_log => CallbackTaken /\ TakenCarriesPendingState
        /\ CallbackTaken /\ ~TakenCarriesPendingState
             => exchange_log' = exchange_log /\ keychain' = keychain ]_vars

\* An exchange has been made and a later callback was rejected for its state.
C1_Witness ==
    /\ exchange_log # <<>>
    /\ auth_state = "Error"
    /\ error_message = "State mismatch"

LoopsAlive == {k \in Loops : LoopAlive(k)}

\* C2: at most one refresh-scheduler loop is active at any time: when
\* start_auto_refresh has spawned a loop, the loops of earlier starts have
\* terminated.
C2_Original == Cardinality(LoopsAlive) <= 1

\* C3: after two successive start_auto_refresh calls with no stop between
\* them, the loop of the second call is running and is_running() is true,
\* until stop_auto_refresh is called.
C3_Original ==
    (api_pc = "idle" /\ consecutive_starts >= 2)
        => /\ is_running
           /\ command_tx \in LoopsAlive

\* C4: the pending state and PKCE verifier of the most recent sign-in attempt
\* are held until that attempt's own result, a cancel or a newer attempt: the
\* handling of a result from the listener of an earlier attempt leaves them,
\* and the cancel channel of the current listener, as they are.
C4_Original ==
    [][ (CallbackTaken /\ TakenFrom # attempts /\ pending_state # None)
          => /\ pending_state' = pending_state
             /\ pending_pkce' = pending_pkce
             /\ cancel_ch'[attempts] = cancel_ch[attempts] ]_vars

\* C5: a new listener binds only after the previous one has released the
\* port, so no sign-in attempt fails with the port in use.
C5_Original ==
    \A l \in Attempts : listeners[l].result.msg # "Failed to start server"

\* C6: when the handling of a sign-in callback has exchanged the code, stored
\* the tokens and shown the signed-in state, the refresh scheduler is armed.
C6_Original ==
    [][ (CallbackTaken /\ exchange_log' # exchange_log /\ auth_state' = "SignedIn")
          => (is_running' /\ command_tx' # 0) ]_vars

\* C7: no two token-refresh sequences run at the same time: the restore
\* task's refresh never overlaps the refresh of a RefreshToken or
\* RefreshPimRoles command.
C7_Original ==
    ~(restore_pc = "refresh_token" /\ bg_pc \in {"refresh_token", "pim_tokens"})

\* A GET for a path beginning with /callback whose query has a parameter
\* named error or code.
IsCallbackRequest(req) ==
    /\ req.read /\ req.line /\ Len(req.parts) >= 2
    /\ req.parts[1] = <<"GET">>
    /\ StartsWith(req.parts[2], <<"/callback">>)
    /\ \/ HasParam(QueryPairs(req.parts[2]), <<"error">>)
       \/ HasParam(QueryPairs(req.parts[2]), <<"code">>)

\* Listener l finishes serving a connection in this step.
Served(l) == listeners[l].pc = "handle" /\ listeners'[l] # listeners[l]

\* C8: start_callback_server returns Success(url) for a connection exactly
\* when it is a GET for a path beginning with /callback whose query carries
\* an error or a code parameter; after any other connection it goes on
\* listening.
C8_Original ==
    [][ Served(1) =>
          IF IsCallbackRequest(listeners[1].req)
          THEN /\ listeners'[1].pc = "returned"
               /\ listeners'[1].result = Success(CallbackUrl(listeners[1].req.parts[2]))
          ELSE listeners'[1].pc = "check" ]_vars

Cancelling == cancel_ch[1] \in {"signal", "disconnected"}

\* C9, as stated: once the cancel signal is sent or the sender dropped, the
\* listener accepts and serves no further connection and returns Cancelled,
\* and it does return.
C9_Original ==
    /\ [][ Cancelling => ~(listeners[1].pc = "accept" /\ listeners'[1].pc = "handle") ]_vars
    /\ [][ Cancelling /\ listeners'[1].pc = "returned" /\ listeners[1].pc # "returned"
             => listeners'[1].result = Cancelled ]_vars
    /\ (Cancelling ~> listeners[1].pc = "returned")

\* C9, amended: a poll iteration that starts with the cancel signal sent or
\* the sender dropped returns Cancelled without accepting a connection, and
\* once cancelled the listener always eventually returns; an iteration that
\* had passed its check when the signal came may still accept and serve one
\* connection.
C9_CancelledAtNextCheck ==
    /\ [][ Cancelling /\ listeners[1].pc = "check" /\ listeners'[1] # listeners[1]
             => listeners'[1].pc = "returned" /\ listeners'[1].result = Cancelled ]_vars
    /\ (Cancelling ~> listeners[1].pc = "returned")

\* The listener has returned Cancelled because its sender was dropped.
C9_Witness ==
    /\ cancel_ch[1] = "disconnected"
    /\ listeners[1].pc = "returned"
    /\ listeners[1].result = Cancelled

\* A GET for /callback whose query has a parameter named error.
IsErrorRequest(req) ==
    /\ req.read /\ req.line /\ Len(req.parts) >= 2
    /\ req.parts[1] = <<"GET">>
    /\ StartsWith(req.parts[2], <<"/callback">>)
    /\ HasParam(QueryPairs(req.parts[2]), <<"error">>)

\* C10: a callback carrying an error parameter ends the listener with
\* Success(full URL), and the orchestrator's handling of that result shows
\* the Error state without a call of exchange_code and without a credential
\* write.
C10_ErrorCallbackEndsInError ==
    [][ /\ \A l \in Attempts :
              Served(l) /\ IsErrorRequest(listeners[l].req)
                => /\ listeners'[l].pc = "returned"
                   /\ listeners'[l].result = Success(CallbackUrl(listeners[l].req.parts[2]))
        /\ ( /\ CallbackTaken
             /\ TakenResult.kind = "Success"
             /\ HasParam(QueryPairs(TakenResult.url), <<"error">>) )
             => /\ auth_state' = "Error"
                /\ error_message' = "OAuthFailed"
                /\ exchange_log' = exchange_log
                /\ keychain' = keychain ]_vars

\* The provider's error from a callback is shown, no exchange was made and
\* no credential is stored.
C10_Witness ==
    /\ auth_state = "Error"
    /\ error_message = "OAuthFailed"
    /\ exchange_log = <<>>
    /\ keychain = EmptyKeychain

\* Every record holds the value written from the token response named by from.
AllStored(kc, from) == \A r \in Records : kc[r] = from

\* The restore task takes its last step.
RestoreEnds == restore_pc # "done" /\ restore_pc' = "done"

Exchanges == 1..Len(exchange_log)

\* C12: every SignIn sets a verifier no earlier attempt had; no two
\* exchange_code calls get the same verifier; each call gets the verifier
\* and the state of one and the same attempt; the verifier held is that of
\* the latest attempt and has not been passed to exchange_code; it is dropped
\* when a callback result is handled and when the attempt is cancelled.
C12_VerifierNeverReused ==
    /\ [](\A i, j \in Exchanges :
             i # j => exchange_log[i].verifier # exchange_log[j].verifier)
    /\ [](\A i \in Exchanges : \E n \in Attempts :
             /\ exchange_log[i].verifier = VerifierOf(n)
             /\ exchange_log[i].state = <<StateOf(n)>>)
    /\ [](pending_pkce # None
            => /\ pending_pkce = VerifierOf(attempts)
               /\ \A i \in Exchanges : exchange_log[i].verifier # pending_pkce)
    /\ [][ attempts' # attempts
             => /\ pending_pkce' = VerifierOf(attempts')
                /\ \A n \in 1..attempts : VerifierOf(n) # pending_pkce' ]_vars
    /\ [][ CallbackTaken => pending_pkce' = None ]_vars
    /\ [][ ( /\ attempts' = attempts /\ attempts > 0
             /\ cancel_ch[attempts] = "empty" /\ cancel_ch'[attempts] = "signal" )
             => pending_pkce' = None ]_vars

\* Two sign-ins have exchanged a code, each with a verifier of its own.
C12_Witness == Len(exchange_log) = 2

\* The background task finishes a manual RefreshToken in this step without
\* having stored the tokens of a refresh response.
ManualRefreshFails ==
    /\ bg_pc = "refresh_token" /\ bg_pc' = "select"
    /\ ~(keychain'.access_token = "refresh" /\ keychain'.token_expiry = "refresh")

\* C13: when a manual RefreshToken fails, or a session restore fails, the
\* auth state becomes SignedOut.
C13_Original ==
    [][ /\ ManualRefreshFails => auth_state' = "SignedOut"
        /\ (RestoreEnds /\ ~AllStored(keychain', "restore"))
             => auth_state' = "SignedOut" ]_vars

\* A record that was present is absent after the step.
RecordDeleted == \E r \in Records : keychain[r] # Absent /\ keychain'[r] = Absent

\* C14: a credential record is deleted only by a step that processes SignOut
\* or ClearData; every other step, failing or not, leaves each stored record
\* present.
C14_DeletedOnlyBySignOutOrClearData ==
    [][ RecordDeleted
          => \E failing \in SUBSET Records : Bg_SignOut(failing) \/ Bg_ClearData(failing) ]_vars

\* A token write of a refresh, a sign-in or a restore has failed half-way and
\* the records written before are all still there.
C14_Witness ==
    /\ keychain.access_token \in {"refresh", "exchange", "restore"}
    /\ keychain.token_expiry = "previous"
    /\ keychain.refresh_token # Absent
    /\ keychain.user_info = "previous"

\* C15: a step that processes SignOut or ClearData leaves the auth state
\* SignedOut and leaves no record whose deletion did not fail; a SignOut step
\* also leaves no pending state or verifier, holds no cancel sender and has
\* the listener of the latest attempt cancelled.
C15_SignOutAndClearDataDeleteAll ==
    [][ \A failing \in SUBSET Records :
          /\ (Bg_SignOut(failing) \/ Bg_ClearData(failing))
               => /\ auth_state' = "SignedOut"
                  /\ \A r \in Records \ failing : keychain'[r] = Absent
          /\ Bg_SignOut(failing)
               => /\ pending_pkce' = None
                  /\ pending_state' = None
                  /\ cancel_tx' = 0
                  /\ attempts > 0 => cancel_ch'[attempts] # "empty" ]_vars

\* A SignOut has cancelled the pending attempt and deleted every record of a
\* restored session but the one whose deletion failed.
C15_Witness ==
    /\ auth_state = "SignedOut"
    /\ pending_pkce = None
    /\ cancel_ch[1] = "signal"
    /\ keychain = [EmptyKeychain EXCEPT !.user_info = "restore"]

\* C16: a refresh_now call causes exactly one refresh attempt; when no loop
\* is active at the call, the attempt is made by refresh_now itself.
C16_Original ==
    [][ (refresh_now'.calls = refresh_now.calls + 1 /\ \A k \in Loops : ~LoopAlive(k))
          => refresh_now'.attempts = refresh_now.attempts + 1 ]_vars

\* Loop k finishes the provider call of a refresh in this step.
RefreshEnds(k) == loops[k].pc = "refreshing" /\ loops'[k].pc # "refreshing"

\* Loop k takes a RefreshNow command from its channel in this step.
TakesRefreshNow(k) ==
    /\ loops[k].pc = "select"
    /\ loops[k].rx # <<>>
    /\ Head(loops[k].rx) = "RefreshNow"
    /\ loops'[k].pc # "exited"
    /\ loops'[k].rx = Tail(loops[k].rx)

\* Loop k consumes a tick of its interval in this step and goes on.
TakesTick(k) ==
    /\ loops[k].pc = "select"
    /\ loops'[k].pc # "exited"
    /\ loops'[k].rx = loops[k].rx
    /\ loops'[k].due = loops[k].due - 1

\* The tick is not the first one and the flag is set: the loop refreshes.
GenuineTick(k) == TakesTick(k) /\ ~loops[k].first_tick /\ is_running

\* on_refresh is called once in this step, by loop k.
OnRefreshCalled(k) == on_refresh'.calls = on_refresh.calls + 1 /\ on_refresh'.by = k

InlineRefreshEnds ==
    \/ api_pc = "refresh_inline" /\ api_pc' = "idle"
    \/ /\ api_pc = "idle" /\ api_pc' = "idle" /\ command_tx = 0
       /\ refresh_now'.calls = refresh_now.calls + 1

\* C18: a refresh made inline by refresh_now ends, like one made by the loop,
\* with one invocation of the result callback.
C18_Original ==
    [][ InlineRefreshEnds => on_refresh'.calls = on_refresh.calls + 1 ]_vars

\* Loop k starts a refresh on a tick of its interval in this step.
TickRefresh(k) ==
    /\ TakesTick(k)
    /\ loops'[k].pc = "refreshing" \/ OnRefreshCalled(k)

\* C19: once the stop_auto_refresh that stopped a loop has returned, that loop
\* starts no refresh on a timer tick.
C19_Original ==
    [][ \A k \in Loops : loops[k].stopped => ~TickRefresh(k) ]_vars

\* C20, as stated: after start_auto_refresh no timer-triggered refresh and no
\* on_refresh call happens before one full interval has elapsed, also when a
\* RefreshNow command is processed before the first tick.
C20_Original ==
    [][ \A k \in Loops :
          (TickRefresh(k) \/ OnRefreshCalled(k)) => loops[k].intervals >= 1 ]_vars

\* C20, amended: no timer-triggered refresh, and no on_refresh call for one,
\* happens before one full interval has elapsed, also when a RefreshNow
\* command is processed before the first tick; the refresh of a RefreshNow
\* command and its on_refresh call do happen before that.
C20_NoTimerRefreshBeforeInterval ==
    [][ \A k \in Loops :
          /\ TickRefresh(k) => loops[k].intervals >= 1
          /\ (OnRefreshCalled(k) /\ on_refresh'.trigger = "tick")
               => loops[k].intervals >= 1 ]_vars

\* A RefreshNow command was served before the loop took its first tick, and
\* the one refresh on a tick came after a full interval.
C20_Witness ==
    /\ on_refresh.calls = 2
    /\ on_refresh.trigger = "tick"
    /\ refresh_now.attempts = 1
    /\ loops[1].intervals >= 1

\* C21: the period of the scheduler's interval is max(expires_in - margin, 60)
\* seconds, the difference taken as 0 when the margin is not smaller than the
\* lifetime: such a margin gives 60, and (3600, 300) gives 3300.
C21_PeriodIsSaturatingMax ==
    (call.fn = "RefreshPeriod" /\ call.done)
      => LET e == call.arg[1]
             m == call.arg[2]
         IN  /\ e - m > 60 => call.result = e - m
             /\ e - m <= 60 => call.result = 60
             /\ m >= e => call.result = 60
             /\ (e = 3600 /\ m = 300) => call.result = 3300

\* A margin larger than the lifetime has given the floor of 60 seconds.
C21_Witness ==
    /\ call.fn = "RefreshPeriod"
    /\ call.arg = <<300, 3600>>
    /\ call.done
    /\ call.result = 60

\* The number of whole minutes of a duration of d seconds.
WholeMinutes(d) ==
    CHOOSE m \in (-2)..(MaxMinutes + 2) :
        IF d >= 0 THEN 60 * m <= d /\ d < 60 * (m + 1)
        ELSE 60 * m >= d /\ d > 60 * (m - 1)

\* C29: format_duration gives "< 1 min" below one whole minute, "m min" for
\* 1 <= m < 60, "h hour" (h = 1) or "h hours" (h > 1) for a whole number of
\* hours, and "Hh Mm" with H = m div 60 and M = m mod 60 otherwise.
C29_FormatDurationCases ==
    (call.fn = "format_duration" /\ call.done)
      => LET m == WholeMinutes(call.arg)
             H == m \div 60
             M == m % 60
         IN  /\ m < 1 => call.result = <<"<", " ", "1", " ", "m", "i", "n">>
             /\ (1 <= m /\ m < 60) => call.result = Decimal(m) \o <<" ", "m", "i", "n">>
             /\ (m >= 60 /\ M = 0 /\ H = 1) => call.result = <<"1", " ", "h", "o", "u", "r">>
             /\ (m >= 60 /\ M = 0 /\ H > 1)
                  => call.result = Decimal(H) \o <<" ", "h", "o", "u", "r", "s">>
             /\ (m >= 60 /\ M # 0)
                  => call.result = Decimal(H) \o <<"h", " ">> \o Decimal(M) \o <<"m">>

\* 90 minutes were formatted as "1h 30m".
C29_Witness ==
    /\ call.fn = "format_duration"
    /\ call.arg = 5400
    /\ call.done
    /\ call.result = <<"1", "h", " ", "3", "0", "m">>

\* The parameters of a list have one named name, and the value of the last.
Named(pairs, name) == \E i \in 1..Len(pairs) : pairs[i].name = name
LastNamed(pairs, name) ==
    pairs[CHOOSE i \in 1..Len(pairs) :
            pairs[i].name = name /\ \A j \in (i + 1)..Len(pairs) : pairs[j].name # name].value

\* C27: parse_callback_url decides in this order: no URL gives InvalidAuthCode;
\* an `error` parameter gives OAuthFailed with the decoded error_description,
\* or the error code when there is none, also when a code is present; no
\* `code` gives InvalidAuthCode; a `code` without `state` gives
\* StateValidationFailed; otherwise it returns (code, state).
C27_ParseDecisionOrder ==
    (call.fn = "parse_callback_url" /\ call.done)
      => LET ps == call.arg.pairs
             r == call.result
         IN  /\ ~call.arg.base => (~r.ok /\ r.err = "InvalidAuthCode")
             /\ (call.arg.base /\ Named(ps, <<"error">>))
                  => /\ ~r.ok /\ r.err = "OAuthFailed"
                     /\ r.desc = IF Named(ps, <<"error_description">>)
                                 THEN LastNamed(ps, <<"error_description">>)
                                 ELSE LastNamed(ps, <<"error">>)
             /\ (call.arg.base /\ ~Named(ps, <<"error">>) /\ ~Named(ps, <<"code">>))
                  => (~r.ok /\ r.err = "InvalidAuthCode")
             /\ (call.arg.base /\ ~Named(ps, <<"error">>) /\ Named(ps, <<"code">>)
                   /\ ~Named(ps, <<"state">>))
                  => (~r.ok /\ r.err = "StateValidationFailed")
             /\ (call.arg.base /\ ~Named(ps, <<"error">>) /\ Named(ps, <<"code">>)
                   /\ Named(ps, <<"state">>))
                  => /\ r.ok
                     /\ r.code = LastNamed(ps, <<"code">>)
                     /\ r.state = LastNamed(ps, <<"state">>)

\* A URL with a code, an error and a description sent as User%20cancelled has
\* given OAuthFailed("User cancelled").
C27_Witness ==
    /\ call.fn = "parse_callback_url"
    /\ call.done
    /\ Named(call.arg.pairs, <<"code">>)
    /\ Contains(call.arg.url, <<"%", "2", "0">>)
    /\ call.result.err = "OAuthFailed"
    /\ call.result.desc = <<"User", " ", "cancelled">>

\* C28: for a non-2xx response the error that exchange_code, refresh_token and
\* get_management_token return depends on the status alone: two responses
\* with the same status and different bodies give equal errors.
C28_ErrorDependsOnStatusOnly ==
    (call.fn \in TokenFunctions /\ call.done)
      => ((call.arg.status[1] = call.arg.status[2] /\ ~is_success(call.arg.status[1]))
            => /\ ~call.result[1].ok
               /\ call.result[1] = call.result[2])

\* Two 401 responses with different bodies have been answered with an error.
C28_Witness ==
    /\ call.fn = "refresh_token"
    /\ call.done
    /\ call.arg.status = <<401, 401>>
    /\ call.arg.body[1] # call.arg.body[2]
    /\ ~call.result[1].ok

\* The step is a call of refresh_token_internal, of handle_oauth_callback.
RefreshReturns == call'.fn = "refresh_token_internal"
CallbackReturns == call'.fn = "handle_oauth_callback"

\* C22: the refresh sequence writes no record when it cannot obtain tokens:
\* without a stored refresh token it returns NotFound and does not contact
\* the provider; when the provider call fails it returns TokenRefreshFailed.
C22_FailedRefreshWritesNothing ==
    [][ RefreshReturns
          => /\ keychain.refresh_token = Absent
                  => /\ ~call'.result.ok
                     /\ call'.result.err = "NotFound"
                     /\ ~call'.result.contacted
                     /\ keychain' = keychain
             /\ (keychain.refresh_token # Absent /\ ~call'.arg.get_fails
                   /\ ~call'.arg.provider_ok)
                  => /\ ~call'.result.ok
                     /\ call'.result.err = "TokenRefreshFailed"
                     /\ call'.result.contacted
                     /\ keychain' = keychain ]_vars

\* A refresh without a stored refresh token has returned NotFound.
C22_Witness ==
    /\ call.fn = "refresh_token_internal"
    /\ call.done
    /\ call.result.err = "NotFound"
    /\ ~call.result.contacted
    /\ keychain.refresh_token = Absent

\* The three token records after the writes of a response named from, of
\* which write k fails (0: none; the refresh token is written only when the
\* response has one).
TokenWrites(from, with_refresh, k) ==
    LET f == IF k = 2 /\ ~with_refresh THEN 0 ELSE k
    IN  /\ keychain'.access_token = IF f = 1 THEN keychain.access_token ELSE from
        /\ keychain'.refresh_token = IF f \in {1, 2} \/ ~with_refresh
                                     THEN keychain.refresh_token ELSE from
        /\ keychain'.token_expiry = IF f \in {1, 2, 3} THEN keychain.token_expiry ELSE from
        /\ call'.result.ok => f = 0

\* No step of the sign-in fails: none is made to fail, or the one that is, the
\* write of the refresh token, is not made.
NothingFails(arg) ==
    arg.failure = "none" \/ (arg.failure = "store2" /\ ~arg.with_refresh)

\* C30: a refresh and a code exchange write the access token, the refresh
\* token (if returned) and the expiry in this order, sign-in the user info
\* last; when a write fails the call returns an error, the records written
\* before it keep their new values and the later ones are not written.
C30_WritesInOrderNoRollback ==
    [][ /\ (RefreshReturns /\ keychain.refresh_token # Absent /\ ~call'.arg.get_fails
              /\ call'.arg.provider_ok)
             => /\ TokenWrites("refresh", call'.arg.with_refresh, call'.arg.fail_at)
                /\ keychain'.user_info = keychain.user_info
        /\ (CallbackReturns /\ call'.arg.failure # "exchange")
             => /\ TokenWrites("exchange", call'.arg.with_refresh, FailAt(call'.arg.failure))
                /\ keychain'.user_info = IF NothingFails(call'.arg) THEN "exchange"
                                         ELSE keychain.user_info
                /\ call'.result.ok <=> NothingFails(call'.arg) ]_vars

\* A refresh whose expiry write failed has left the new access token next to
\* the old expiry.
C30_Witness ==
    /\ call.fn = "refresh_token_internal"
    /\ call.done
    /\ call.arg.fail_at = 3
    /\ ~call.result.ok
    /\ keychain.access_token = "refresh"
    /\ keychain.token_expiry = "previous"

\* The step is a call of delete_all.
DeleteAllReturns == call'.fn = "delete_all"

\* C23: delete_all returns Ok whichever records are already absent, returns
\* DeleteFailed only if the removal of a record that is present fails, and a
\* second call returns the same and leaves the same store as the first.
C23_DeleteAllIdempotent ==
    [][ DeleteAllReturns
          => LET failing == call'.arg.failing
                 result == call'.result.ret
             IN  /\ (\A r \in failing : keychain[r] = Absent) => result = "Ok"
                 /\ result = "DeleteFailed" => \E r \in failing : keychain[r] # Absent
                 /\ \A r \in Records :
                       IF r \in failing THEN keychain'[r] = keychain[r]
                       ELSE keychain'[r] = Absent
                 /\ delete_all(keychain', failing) = keychain'
                 /\ delete_all_returns(keychain', failing) = result ]_vars

\* delete_all has returned Ok on a store whose four records were all absent.
C23_Witness ==
    /\ call.fn = "delete_all"
    /\ call.done
    /\ call.arg.failing = Records
    /\ call.result.ret = "Ok"
    /\ keychain = EmptyKeychain

\* C24: a get of a record returns the value of the last store to that record,
\* whatever was stored to the other three since; after delete_all every get
\* returns NotFound until the record is stored again.
C24_GetReturnsLastStored ==
    (call.fn = "get" /\ call.done)
      => LET r == call.arg.record
         IN  /\ (last_stored[r] \in Values /\ ~call.arg.fails)
                  => (call.result.ok /\ call.result.value = last_stored[r])
             /\ last_stored[r] = Deleted
                  => (~call.result.ok /\ call.result.err = "NotFound")

\* The refresh token was read back after other values were stored to the
\* access token and the user info.
C24_Witness ==
    /\ call.fn = "get"
    /\ call.done
    /\ call.arg.record = "refresh_token"
    /\ call.result.ok
    /\ call.result.value = "t2"
    /\ last_stored.access_token = "t1"
    /\ last_stored.user_info = "t1"

\* C25: once start_callback_server has returned, with Success, Cancelled or
\* Error, its listener no longer holds the port, and a bind by a new listener
\* made when every other call has returned does not find the port in use.
C25_PortFreeAfterReturn ==
    [][ \A l \in Attempts :
          /\ listeners'[l].pc = "returned" => port' # l
          /\ (/\ listeners[l].pc = "bind"
              /\ listeners'[l].pc # "bind"
              /\ \A m \in Attempts \ {l} : listeners[m].pc = "returned")
               => \/ listeners'[l].pc = "check" /\ port' = l
                  \/ /\ listeners'[l].pc = "returned"
                     /\ listeners'[l].result.msg # "Failed to start server" ]_vars

\* A listener holds the port after an earlier one returned Success.
C25_Witness ==
    /\ listeners[1].pc = "returned"
    /\ listeners[1].result.kind = "Success"
    /\ listeners[2].pc = "check"
    /\ port = 2

\* A step that is a call of stop_auto_refresh.
StopReturns == call'.fn = "stop_auto_refresh" /\ call'.arg # call.arg

\* C26: stop_auto_refresh on a manager that holds no sender (never started,
\* or already stopped) queues nothing for any loop, returns, leaves
\* is_running false and the sender absent, and changes nothing at all when
\* is_running was already false, so a second call adds nothing to the first.
C26_StopWithoutLoopIsNoOp ==
    [][ (StopReturns /\ command_tx = 0)
          => /\ call'.done
             /\ loops' = loops
             /\ command_tx' = 0
             /\ is_running' = FALSE
             /\ keychain' = keychain
             /\ ~is_running => tmVars' = tmVars ]_vars

\* A second stop_auto_refresh has returned while the loop that the first one
\* signalled is still alive with that one Stop queued.
C26_Witness ==
    /\ call.fn = "stop_auto_refresh"
    /\ call.arg[1] = 0
    /\ command_tx = 0
    /\ ~is_running
    /\ loops[1].pc \in {"select", "refreshing"}
    /\ loops[1].rx = <<"Stop">>

\* The response that a returned call of a token-writing sequence received.
ResponseName == IF call'.fn = "refresh_token_internal" THEN "refresh" ELSE "exchange"

\* C31: a successful refresh or exchange overwrites the access token and the
\* expiry with those of the response; the stored refresh token is replaced
\* by the response's when it carries one and is left as it was when it
\* carries none.
C31_RefreshTokenKeptWhenNotReturned ==
    [][ ((RefreshReturns \/ CallbackReturns) /\ call'.result.ok)
          => /\ keychain'.access_token = ResponseName
             /\ keychain'.token_expiry = ResponseName
             /\ keychain'.refresh_token =
                    IF call'.arg.with_refresh THEN ResponseName
                    ELSE keychain.refresh_token ]_vars

\* A refresh whose response carried no refresh token has succeeded and the
\* refresh token of the sign-in is still stored.
C31_Witness ==
    /\ call.fn = "refresh_token_internal"
    /\ call.result.ok
    /\ ~call.arg.with_refresh
    /\ keychain.access_token = "refresh"
    /\ keychain.token_expiry = "refresh"
    /\ keychain.refresh_token = "exchange"

\* The first step of try_restore_session.
RestoreStarts == restore_pc = "start" /\ restore_pc' # "start"

\* C32: session restore looks at the stored refresh token only.  Without
\* one it ends SignedOut, never showing Authenticating and never sending a
\* request to the provider.  With one it shows Authenticating and sends the
\* stored token to the provider at once, whatever the access-token and expiry
\* records hold, and while the request is in flight a restore that ends
\* SignedIn is possible whichever of the other records are absent.
C32_RestoreDependsOnRefreshTokenOnly ==
    [][ /\ (RestoreStarts /\ keychain.refresh_token = Absent)
           => /\ restore_pc' = "done"
              /\ auth_state' = "SignedOut"
              /\ restore_tok' = Absent
              /\ keychain' = keychain
        /\ (RestoreStarts /\ keychain.refresh_token # Absent)
           => /\ restore_pc' = "refresh_token"
              /\ auth_state' = "Authenticating"
              /\ restore_tok' = keychain.refresh_token
              /\ keychain' = keychain
        /\ restore_pc = "refresh_token"
           => ENABLED (Restore_Done({"none"}) /\ auth_state' = "SignedIn")
        /\ keychain'.refresh_token = Absent
           => auth_state' # "Authenticating" /\ restore_pc' # "refresh_token" ]_vars

\* The restore has sent the stored refresh token to the provider although
\* neither an access token nor an expiry is stored.
C32_Witness ==
    /\ restore_pc = "refresh_token"
    /\ restore_tok = "previous"
    /\ auth_state = "Authenticating"
    /\ keychain.access_token = Absent
    /\ keychain.token_expiry = Absent

\* The first record, in the order access token, refresh token, user info,
\* expiry, that is stored and whose deletion is made to fail.
FirstFailing(kc, failing) ==
    IF kc.access_token # Absent /\ "access_token" \in failing THEN "access_token"
    ELSE IF kc.refresh_token # Absent /\ "refresh_token" \in failing THEN "refresh_token"
    ELSE IF kc.user_info # Absent /\ "user_info" \in failing THEN "user_info"
    ELSE IF kc.token_expiry # Absent /\ "token_expiry" \in failing THEN "token_expiry"
    ELSE None

\* C33: delete_all makes all four deletions before it reports: every record
\* whose deletion does not fail is removed, also when the deletion of another
\* record fails, and the error reported is that of the first failing deletion
\* in the order access token, refresh token, user info, expiry.
C33_DeleteAllAttemptsEveryRecord ==
    [][ DeleteAllReturns
          => LET failing == call'.arg.failing
             IN  /\ \A r \in Records \ failing : keychain'[r] = Absent
                 /\ \A r \in failing : keychain'[r] = keychain[r]
                 /\ call'.result.error = FirstFailing(keychain, failing)
                 /\ call'.result.ret = "DeleteFailed"
                      <=> FirstFailing(keychain, failing) # None ]_vars

\* delete_all reported the failure for the refresh token, left that record
\* and the expiry, whose deletion failed too, and removed the other two.
C33_Witness ==
    /\ call.fn = "delete_all"
    /\ call.arg.failing = {"refresh_token", "token_expiry"}
    /\ call.result.ret = "DeleteFailed"
    /\ call.result.error = "refresh_token"
    /\ keychain.access_token = Absent
    /\ keychain.user_info = Absent
    /\ keychain.refresh_token # Absent
    /\ keychain.token_expiry # Absent

\* C34: while the MenuAction handled last is a SignOut or a ClearData whose
\* delete_all returned Ok, which is the time from that action to the next
\* SignIn at the least, the credential store is empty: no pending sign-in
\* and no restore in flight writes a record.
C34_Original ==
    last_action \in {"SignOut", "ClearData"} => keychain = EmptyKeychain

\* C35: while CancelSignIn is the MenuAction handled last, a Cancelled or
\* Success result taken from the listener of the cancelled sign-in attempt
\* changes neither the auth state nor the credential store.
C35_Original ==
    [][ (/\ CallbackTaken
         /\ last_action = "CancelSignIn"
         /\ TakenFrom = attempts
         /\ TakenResult.kind \in {"Cancelled", "Success"})
          => /\ auth_state' = auth_state
             /\ keychain' = keychain ]_vars

\* The step is a call of the RefreshPimRoles handler.
PimReturns == call'.fn = "RefreshPimRoles"

\* C36: when an answer to a refresh-grant request carries a new refresh
\* token, that token is in the keychain before a refresh token is sent to
\* the provider again: after a successful refresh the stored token is the
\* one the answer carried, each request of the PIM role refresh sends the
\* token the answer before it carried, and the token its last answer carried
\* is the one stored when the handler is done.
C36_Original ==
    [][ /\ (RefreshReturns /\ call'.result.ok /\ call'.arg.with_refresh)
           => keychain'.refresh_token = "refresh"
        /\ PimReturns
           => LET sent == call'.result.sent
                  issued == call'.result.issued
                  n == Len(issued)
              IN  /\ \A i \in 2..n : issued[i-1] # Absent => sent[i] = issued[i-1]
                  /\ (n > 0 /\ issued[n] # Absent)
                       => keychain'.refresh_token = issued[n] ]_vars

\* The ToggleFavorite handler writes the PimState back.
ToggleWrites == toggle.pc = "toggle" /\ toggle'.pc = "idle"

\* The main thread's status closure writes the PimState back.
StatusWrites == main_pc.fn = "update_pim_status" /\ main_pc'.fn = None

\* C37: no update of the shared PimState is lost.  The write-back of a
\* ToggleFavorite toggles the key in the favorites as they are and leaves
\* the roles, assignments and status that the main thread has set; the
\* write-back of a status update leaves the favorites, roles and assignments.
C37_Original ==
    [][ /\ ToggleWrites
           => /\ pim_state'.favorite_role_keys =
                    toggle_favorite(pim_state.favorite_role_keys, toggle.role_key)
              /\ pim_state'.eligible_roles = pim_state.eligible_roles
              /\ pim_state'.active_assignments = pim_state.active_assignments
              /\ pim_state'.api_status = pim_state.api_status
        /\ StatusWrites
           => /\ pim_state'.favorite_role_keys = pim_state.favorite_role_keys
              /\ pim_state'.eligible_roles = pim_state.eligible_roles
              /\ pim_state'.active_assignments = pim_state.active_assignments ]_vars

\* C38: in every state of the AppState, SignedIn implies that the user info
\* and the token expiry are set, and SignedOut, which only update_signed_out
\* sets after AppState::new, implies that both are None.
C38_Original ==
    /\ auth_state = "SignedIn" => (user_info # None /\ token_expiry # None)
    /\ auth_state = "SignedOut" => (user_info = None /\ token_expiry = None)


\* C39: at every time needs_refresh() is true exactly when get_eligible_roles()
\* returns None; the cached roles are returned exactly when the last call that
\* changed the cache was set_eligible_roles and less than one hour has passed
\* since it, and they are the roles that call stored.  So after invalidate,
\* and from one hour after set_eligible_roles on, the cache needs a refresh.
C39_NeedsRefreshIffNoRoles ==
    LET got == get_eligible_roles(pim_cache, utc_now)
        fresh == call.fn = "set_eligible_roles" /\ utc_now - call.arg.at < TicksPerHour
    IN  /\ needs_refresh(pim_cache, utc_now) <=> got = None
        /\ got # None <=> fresh
        /\ fresh => got = call.arg.roles

\* Roles set one hour ago or longer are still stored and no longer returned.
C39_Witness ==
    /\ call.fn = "set_eligible_roles"
    /\ utc_now - call.arg.at >= TicksPerHour
    /\ pim_cache.set
    /\ needs_refresh(pim_cache, utc_now)

\* C40: toggle_favorite(k) flips is_favorite(k) and leaves is_favorite of
\* every other key as it was; a second toggle of k gives back the original
\* membership; and a favorites list without duplicates stays without
\* duplicates through any sequence of toggles.
C40_ToggleFlipsOneKey ==
    [][ call'.fn = "toggle_favorite" =>
          LET k == call'.arg.role_key
              before == pim_state.favorite_role_keys
              after == pim_state'.favorite_role_keys
              again == toggle_favorite(after, k)
          IN  /\ is_favorite(after, k) = ~is_favorite(before, k)
              /\ \A other \in RoleKeys \ {k} :
                    is_favorite(after, other) = is_favorite(before, other)
              /\ \A key \in RoleKeys :
                    is_favorite(again, key) = is_favorite(before, key)
              /\ NoDuplicates(before)
              /\ NoDuplicates(after) ]_vars

\* A favorite has been toggled off and at least two other favorites remain.
C40_Witness ==
    /\ call.fn = "toggle_favorite"
    /\ ~is_favorite(pim_state.favorite_role_keys, call.arg.role_key)
    /\ Len(pim_state.favorite_role_keys) >= 2

====
